---------------------------- MODULE Spec2Model ----------------------------
(***************************************************************************)
(* A model of the offline stage of the certified reduced basis method:     *)
(*   EllipticCoerciveRBBase.offline / _init_offline / greedy and           *)
(*   save_greedy_post_processing_file                                      *)
(*     (src/RBniCS/reduction_methods/elliptic_coercive_rb_reduction.py)    *)
(*   GramSchmidt.apply (src/RBniCS/backends/basic/gram_schmidt.py)         *)
(* and, each as a specification of its own,                                *)
(*   the steps of one call of GramSchmidt.apply (SpecGS),                  *)
(*   EllipticCoerciveRBBase.error_analysis (SpecEA),                       *)
(*   ReducedMesh as src/tests/unit/test_reduced_mesh.py uses it (SpecRM),  *)
(*   the reduction method decorated with SCM (SpecSCM)                     *)
(*     (src/RBniCS/scm/reduction_methods/                                  *)
(*      scm_decorated_reduction_method.py),                                *)
(*   FunctionSpace with string components (SpecFS)                         *)
(*     (src/RBniCS/backends/fenics/wrapping/function_space.py),            *)
(*   a save of a store record by record, interrupted anywhere (SpecSV).    *)
(*                                                                         *)
(* Names are resolved to their evident referents: self.N, self.Z and       *)
(* self.mu are the reduced problem's N, Z and the truth problem's mu, and  *)
(* the call of save_greedy_post_processing_file runs the static method of  *)
(* that name, which appends one record to each of the two text files.      *)
(*                                                                         *)
(* Vectors are pairs of fixed-point numbers (SCALE units to one), written  *)
(* in coordinates in which the inner product X is the identity; the        *)
(* arithmetic rounds, as the floating-point arithmetic of the code does.   *)
(***************************************************************************)
EXTENDS Integers, Sequences, FiniteSets, TLC

VARIABLES
    pc,          \* position of the (single) caller inside offline()
    run,         \* loop variable of "for run in range(self.Nmax)"
    Nmax,        \* self.Nmax
    xi_train,    \* self.xi_train, a sequence of parameters
    mu0,         \* the parameter the user sets before calling offline()
    mu,          \* self.mu, the current parameter
    N,           \* self.reduced_problem.N
    Z,           \* self.reduced_problem.Z, the basis in memory
    snapshot,    \* local of offline(): the last truth solution
    built,       \* N for which operators / solution / error matrices were built
    need,        \* need_to_do_offline_stage
    err,         \* the exception that left offline(), or "none"
    gi,          \* greedy(): number of training parameters scanned so far
    delta_max,   \* greedy(): local delta_max
    munew,       \* greedy(): local munew
    deltas,      \* greedy(): the bounds get_delta() returned in this scan
    picks,       \* greedy(): for each scanned parameter, what the test decided
    diskZ,       \* basis folder: the persisted basis
    deltaFile,   \* post_processing/delta_max.txt, one entry per write
    muFile,      \* post_processing/mu_greedy.txt, one entry per write
    folders,     \* the folders that exist on disk
    exported,    \* snapshot files written by export_solution
    log,         \* steps started in the current call of offline(), in order
    truthCalls,  \* calls of truth_problem.solve() in the current iteration
    chk,         \* N, Z and the persisted data at the end of the last completed iteration
    entry,       \* N, Z and the persisted data when _init_offline returned
    prev,        \* what the previous call of offline() in this process returned
    restarts,    \* number of times the process was started again
    lastExit,    \* how the previous process ended: "killed", "failed" or "done"
    (* A call of GramSchmidt.apply(Z), step by step *)
    gsPc,        \* position inside apply()
    gsZ,         \* the sequence Z the caller passed
    gsIn,        \* the value of Z when apply() was called
    gs_i,        \* loop variable of "for i in range(n_basis - 1)"
    gs_b,        \* the vector that the local b refers to
    gs_alias,    \* whether b refers to the last element of Z itself
    gsTrace,     \* the projection steps and normalizations made, in order
    gsErr,       \* the exception that left apply(), or "none"
    (* A call of error_analysis(N), step by step *)
    eaPc,        \* position inside error_analysis()
    eaZ,         \* the basis of the reduced problem
    eaN,         \* self.N
    argN,        \* the argument N, or NoneN
    xi_test,     \* self.xi_test, a sequence of parameters
    eaMu,        \* the parameter of the reduced problem
    ea_N,        \* the local N
    ea_run,      \* loop variable of "for run in range(len(self.xi_test))"
    ea_n,        \* loop variable of "for n in range(N)"
    error_u, delta_u, effectivity_u,   \* the arrays of lines 205-207
    error_s, delta_s, effectivity_s,   \* the arrays of lines 208-210
    report_u,    \* the rows printed by lines 231-240
    report_s,    \* the rows printed by lines 244-253
    eaTrace,     \* the evaluations made, in order
    eaErr,       \* the exception that left error_analysis(), or "none"
    eaIn,        \* the basis and N when error_analysis() was called
    (* A ReducedMesh, its file and the run of the program that uses it *)
    rmSpaces,    \* the function spaces the ReducedMesh was constructed with
    rmParts,     \* number of parallel partitions of the current run
    rmMarked,    \* for each partition, the cells of the accumulated set it owns
    dofs_list,   \* get_dofs_list(): the DOF tuples in the order they were appended
    reduced_dofs_list,  \* get_reduced_dofs_list(): their indices in the reduced spaces
    rmDisk,      \* what save() wrote under the label, or NoFile
    rmLoaded,    \* the ReducedMesh that load() filled, or NoMesh
    rmOp,        \* the last operation and its argument
    rmAppends,   \* number of calls of append() in the current run
    rmRuns,      \* number of runs of the program so far
    rmSaved,     \* the ReducedMesh as it was at the last save(), and the partitions then
    (* An SCM-decorated reduction method and the calls of its methods *)
    scmPc,       \* position inside the method that is running, or "ready"
    scmCall,     \* the method called last, its argument and keyword arguments
    scmBase,     \* Nmax, ntrain and ntest of the reduction method itself
    scmSub,      \* Nmax, ntrain and ntest of self.SCM_reduction
    scmMu,       \* self.truth_problem.mu
    scmMuAtCall, \* self.truth_problem.mu when offline() was called
    bak_first_mu,  \* local of offline()
    scmMuAfterSub, \* self.truth_problem.mu when SCM_reduction.offline() returned
    scmFirstMu,  \* the parameter of the first truth solve of the base offline()
    scmTrace,    \* the methods of the base and of SCM_reduction executed by the call
    scmErr,      \* the exception that left the call, or "none"
    scmRet,      \* what the call returned
    scmCalls,    \* number of calls so far
    (* A FunctionSpace built with components, and the calls made on it *)
    fsPc,        \* "new" before _enable_string_components, "ready" after it,
                 \* "called" after a call on the function space
    components,  \* the components keyword argument
    component_to_index,  \* function_space._component_to_index, a set of (key, value)
    fsArg,       \* the method called last and its argument
    fsOut,       \* what the call returned or raised
    (* A store (the basis or the reduced mesh) saved step by step *)
    svPc,        \* "idle", "writing", "killed"
    svStore,     \* "basis" or "reduced_mesh"
    svMem,       \* the records the process holds
    svDisk,      \* the directories on disk, by name
    svNext,      \* the record the save writes next
    svSaved,     \* the contents of the saves that were completed
    svLoaded,    \* what the last load returned
    svSaves      \* number of saves started so far

offlineVars == << pc, run, Nmax, xi_train, mu0, mu, N, Z, snapshot, built, need, err,
                  gi, delta_max, munew, deltas, picks, diskZ, deltaFile, muFile,
                  folders, exported, log, truthCalls, chk, entry, prev, restarts,
                  lastExit >>
gsVars == << gsPc, gsZ, gsIn, gs_i, gs_b, gs_alias, gsTrace, gsErr >>
eaVars == << eaPc, eaZ, eaN, argN, xi_test, eaMu, ea_N, ea_run, ea_n,
             error_u, delta_u, effectivity_u, error_s, delta_s, effectivity_s,
             report_u, report_s, eaTrace, eaErr, eaIn >>
rmVars == << rmSpaces, rmParts, rmMarked, dofs_list, reduced_dofs_list, rmDisk, rmLoaded, rmOp,
             rmAppends, rmRuns, rmSaved >>
scmVars == << scmPc, scmCall, scmBase, scmSub, scmMu, scmMuAtCall, bak_first_mu, scmMuAfterSub,
              scmFirstMu, scmTrace, scmErr, scmRet, scmCalls >>
fsVars == << fsPc, components, component_to_index, fsArg, fsOut >>
svVars == << svPc, svStore, svMem, svDisk, svNext, svSaved, svLoaded, svSaves >>
vars == << offlineVars, gsVars, eaVars, rmVars, scmVars, fsVars, svVars >>

(* What a step of one operation leaves alone: the state of the others *)
otherThanOffline == << gsVars, eaVars, rmVars, scmVars, fsVars, svVars >>
otherThanGS == << offlineVars, eaVars, rmVars, scmVars, fsVars, svVars >>
otherThanEA == << offlineVars, gsVars, rmVars, scmVars, fsVars, svVars >>
otherThanRM == << offlineVars, gsVars, eaVars, scmVars, fsVars, svVars >>
otherThanSCM == << offlineVars, gsVars, eaVars, rmVars, fsVars, svVars >>
otherThanFS == << offlineVars, gsVars, eaVars, rmVars, scmVars, svVars >>
otherThanSV == << offlineVars, gsVars, eaVars, rmVars, scmVars, fsVars >>

-----------------------------------------------------------------------------
(* Bounds of the model *)

MaxNmax == 2
MaxTrain == 3
MaxDelta == 1
MaxRestarts == 1

(* Fixed-point resolution of the vector arithmetic *)
SCALE == 100

(* munew = None (line 174) *)
NoneMu == 0

(* The parameter domain: three sampled parameters *)
Mus == {1, 2, 3}

(* The training sets: the first k parameters of an enumeration of the     *)
(* parameter domain that starts at any of its points and wraps around     *)
Enumeration(first, k) == [ i \in 1 .. k |-> ((first + i - 2) % Cardinality(Mus)) + 1 ]
TrainSets == { Enumeration(first, k) : first \in Mus, k \in 0 .. MaxTrain }

-----------------------------------------------------------------------------
(* Vectors *)

NaNVec == << >>
IsNaN(v) == v = NaNVec

(* transpose(a)*X*b *)
Inner(a, b) == (a[1] * b[1] + a[2] * b[2]) \div SCALE

(* sqrt of a fixed-point number *)
Sqrt(v) == CHOOSE r \in 0 .. (v + SCALE) : r * r <= v * SCALE /\ (r + 1) * (r + 1) > v * SCALE

(* The truth solution at mu: 1 and 2 are parallel, 3 is independent of both *)
TruthSolution(m) ==
    CASE m = 1 -> << 3 * SCALE, 4 * SCALE >>
      [] m = 2 -> << 6 * SCALE, 8 * SCALE >>
      [] OTHER -> << 4 * SCALE, 0 - 2 * SCALE >>


(* wrapping.gram_schmidt_projection_step(b, X, z, transpose):              *)
(* b - (<b, z>_X / <z, z>_X) z                                             *)
gram_schmidt_projection_step(b, z) ==
    IF IsNaN(b) \/ IsNaN(z) \/ Inner(z, z) = 0 THEN NaNVec
    ELSE LET coef == (Inner(b, z) * SCALE) \div Inner(z, z)
         IN  << b[1] - (coef * z[1]) \div SCALE, b[2] - (coef * z[2]) \div SCALE >>

(* The loop of GramSchmidt.apply: b after the projections against         *)
(* Zs[1], ..., Zs[k], in that order                                        *)
RECURSIVE Projected(_, _)
Projected(Zs, k) ==
    IF k = 0 THEN Zs[Len(Zs)]
    ELSE gram_schmidt_projection_step(Projected(Zs, k - 1), Zs[k])

(* sqrt(transpose(b)*X*b) of the projected vector *)
ResidualNorm(Zs) ==
    LET b == Projected(Zs, Len(Zs) - 1)
    IN  IF IsNaN(b) THEN 0 ELSE Sqrt(Inner(b, b))

(* b.vector()[:] /= norm, for a norm that is not zero *)
Normalized(b, nrm) ==
    IF IsNaN(b) THEN NaNVec
    ELSE << (b[1] * SCALE) \div nrm, (b[2] * SCALE) \div nrm >>

(* GramSchmidt.apply(Z) when it returns: the last element of Z is replaced *)
(* in place. A zero norm leaves a vector that is not finite.               *)
GSapply(Zs) ==
    LET n   == Len(Zs)
        b   == Projected(Zs, n - 1)
        nrm == ResidualNorm(Zs)
    IN  [Zs EXCEPT ![n] = IF IsNaN(b) \/ nrm = 0 THEN NaNVec ELSE Normalized(b, nrm)]

-----------------------------------------------------------------------------
(* The offline stage *)

Running == { "init", "loop", "truth", "enrich", "gs", "save", "incr",
             "build_ops", "rsolve", "build_err", "greedy", "scan",
             "save_delta", "save_mu" }

Persisted == [ diskZ |-> diskZ, deltaFile |-> deltaFile, muFile |-> muFile,
               exported |-> exported ]

NoPrev == [ calls |-> 0, N |-> 0, Z |-> << >> ]

(* The state of a new process before it calls offline() *)
NotStarted ==
    /\ mu = mu0
    /\ run = 0
    /\ N = 0
    /\ Z = << >>
    /\ snapshot = NaNVec
    /\ built = [ ops |-> 0, sol |-> 0, err |-> 0 ]
    /\ need = TRUE
    /\ err = "none"
    /\ gi = 0
    /\ delta_max = 0 - 1
    /\ munew = NoneMu
    /\ deltas = << >>
    /\ picks = << >>
    /\ diskZ = << >>
    /\ deltaFile = << >>
    /\ muFile = << >>
    /\ folders = { }
    /\ exported = { }
    /\ log = << >>
    /\ truthCalls = 0
    /\ chk = [ N |-> 0, Z |-> << >>, disk |-> [ diskZ |-> << >>, deltaFile |-> << >>,
                                                 muFile |-> << >>, exported |-> { } ] ]
    /\ entry = chk
    /\ prev = NoPrev
    /\ restarts = 0
    /\ lastExit = "none"

(* No call of GramSchmidt.apply is followed *)
GSIdle ==
    /\ gsPc = "idle"
    /\ gsZ = << >>
    /\ gsIn = << >>
    /\ gs_i = 0
    /\ gs_b = NaNVec
    /\ gs_alias = FALSE
    /\ gsTrace = << >>
    /\ gsErr = "none"

(* N = None, line 196 *)
NoneN == 0 - 1

(* No call of error_analysis is followed *)
EAIdle ==
    /\ eaPc = "idle"
    /\ eaZ = << >>
    /\ eaN = 0
    /\ argN = NoneN
    /\ xi_test = << >>
    /\ eaMu = 1
    /\ ea_N = 0
    /\ ea_run = 0
    /\ ea_n = 0
    /\ error_u = << >> /\ delta_u = << >> /\ effectivity_u = << >>
    /\ error_s = << >> /\ delta_s = << >> /\ effectivity_s = << >>
    /\ report_u = << >>
    /\ report_s = << >>
    /\ eaTrace = << >>
    /\ eaErr = "none"
    /\ eaIn = [ Z |-> << >>, N |-> 0 ]

(* No file of a ReducedMesh, no ReducedMesh *)
NoFile == [ cells |-> { }, dofs |-> << >>, reduced |-> << >>, exists |-> FALSE ]
NoMesh == [ marked |-> << >>, dofs |-> << >>, reduced |-> << >>, exists |-> FALSE ]

(* No ReducedMesh is followed *)
RMIdle ==
    /\ rmSpaces = << "V", "V" >>
    /\ rmParts = 1
    /\ rmMarked = << { } >>
    /\ dofs_list = << >>
    /\ reduced_dofs_list = << >>
    /\ rmDisk = NoFile
    /\ rmLoaded = NoMesh
    /\ rmOp = << "idle" >>
    /\ rmAppends = 0
    /\ rmRuns = 0
    /\ rmSaved = [ cells |-> { }, dofs |-> << >>, reduced |-> << >>, parts |-> 0 ]

(* A value passed by keyword: an int or something else *)
KwInt(n) == << "int", n >>
KwOther == << "other", 0 >>

NoCall == [ method |-> "none", arg |-> 0, kw |-> { }, SCM |-> KwOther ]
NoSettings == [ Nmax |-> KwInt(0), ntrain |-> KwInt(0), ntest |-> KwInt(0) ]

(* No SCM-decorated reduction method is followed *)
SCMIdle ==
    /\ scmPc = "idle"
    /\ scmCall = NoCall
    /\ scmBase = NoSettings
    /\ scmSub = NoSettings
    /\ scmMu = 1
    /\ scmMuAtCall = NoneMu
    /\ bak_first_mu = NoneMu
    /\ scmMuAfterSub = NoneMu
    /\ scmFirstMu = NoneMu
    /\ scmTrace = << >>
    /\ scmErr = "none"
    /\ scmRet = << "none" >>
    /\ scmCalls = 0

(* No call made yet, nothing returned *)
NoArg == << "none", << "none", 0 >> >>
NoOut == [ result |-> "none", call |-> NoArg, map |-> { } ]

(* No FunctionSpace is followed *)
FSIdle ==
    /\ fsPc = "idle"
    /\ components = << >>
    /\ component_to_index = { }
    /\ fsArg = NoArg
    /\ fsOut = NoOut

(* A directory that does not exist *)
NoDirectory == [ exists |-> FALSE, count |-> 0, records |-> << >> ]
NothingLoaded == << "none", << >> >>

(* No store is followed *)
SVIdle ==
    /\ svPc = "idle"
    /\ svStore = "none"
    /\ svMem = << >>
    /\ svDisk = [ name \in { "final", "tmp" } |-> NoDirectory ]
    /\ svNext = 0
    /\ svSaved = { }
    /\ svLoaded = NothingLoaded
    /\ svSaves = 0

Init ==
    /\ Nmax \in 1 .. MaxNmax
    /\ xi_train \in TrainSets
    /\ mu0 \in Mus
    /\ pc = "init"
    /\ NotStarted
    /\ GSIdle
    /\ EAIdle
    /\ RMIdle
    /\ SCMIdle
    /\ FSIdle
    /\ SVIdle

greedyLocals == << gi, delta_max, munew, deltas, picks >>
config == << Nmax, xi_train, mu0 >>
disk == << diskZ, deltaFile, muFile, folders, exported >>
ghosts == << chk, entry, prev, restarts, lastExit >>

(* EllipticCoerciveReductionMethodBase._init_offline: the offline stage is *)
(* needed unless a complete basis of the target size is on disk            *)
ParentNeedOffline == Len(diskZ) # Nmax

(* A variant that does not return early *)
AfterInitNoReturn(nd) == "loop"

(* offline(), lines 124-125: where the call goes after _init_offline *)
AfterInit(nd) == IF nd THEN "loop" ELSE "done"

(* _init_offline, lines 104-119, and lines 123-125 of offline(). When the  *)
(* stage is not needed the parent loads the persisted basis. The assertion *)
(* of line 110 fails when a complete basis is on disk and the error        *)
(* estimation folder is not; no run of offline() leaves the disk so.       *)
InitOffline ==
    /\ pc = "init"
    /\ LET nd == ParentNeedOffline
           assertFails == "error_estimation" \notin folders /\ ~nd
           loadedN == IF nd THEN N ELSE Len(diskZ)
           loadedZ == IF nd THEN Z ELSE diskZ
       IN  /\ need' = nd
           /\ N' = loadedN
           /\ Z' = loadedZ
           /\ IF assertFails
              THEN /\ pc' = "failed"
                   /\ err' = "AssertionError"
                   /\ folders' = folders
              ELSE /\ pc' = AfterInit(nd)
                   /\ err' = "none"
                   /\ folders' = folders \cup { "error_estimation", "snapshots", "post_processing" }
           /\ entry' = [ N |-> loadedN, Z |-> loadedZ, disk |-> Persisted ]
           /\ chk' = [ N |-> loadedN, Z |-> loadedZ, disk |-> Persisted ]
    /\ run' = 0
    /\ log' = << >>
    /\ truthCalls' = 0
    /\ UNCHANGED << otherThanOffline, config, mu, snapshot, built, greedyLocals, diskZ, deltaFile,
                    muFile, exported, prev, restarts, lastExit >>

(* A variant whose loop runs once more *)
LoopHeadOneMore ==
    /\ pc = "loop"
    /\ pc' = IF run <= Nmax THEN "truth" ELSE "done"
    /\ truthCalls' = 0
    /\ UNCHANGED << otherThanOffline, run, config, mu, N, Z, snapshot, built, need, err,
                    greedyLocals, disk, log, ghosts >>

(* for run in range(self.Nmax), line 132; return, line 169 *)
LoopHead ==
    /\ pc = "loop"
    /\ pc' = IF run < Nmax THEN "truth" ELSE "done"
    /\ truthCalls' = 0
    /\ UNCHANGED << otherThanOffline, run, config, mu, N, Z, snapshot, built, need, err,
                    greedyLocals, disk, log, ghosts >>

(* snapshot = self.truth_problem.solve() and the export, lines 136-138 *)
TruthSolveOk ==
    /\ pc = "truth"
    /\ snapshot' = TruthSolution(mu)
    /\ exported' = exported \cup { run }
    /\ truthCalls' = truthCalls + 1
    /\ log' = Append(log, << run, "truth_solve" >>)
    /\ pc' = "enrich"
    /\ UNCHANGED << otherThanOffline, run, config, mu, N, Z, built, need, err, greedyLocals,
                    diskZ, deltaFile, muFile, folders, ghosts >>

(* A variant that calls the truth solver a second time before giving up *)
TruthSolveFailRetries ==
    /\ pc = "truth"
    /\ truthCalls' = truthCalls + 1
    /\ log' = Append(log, << run, "truth_solve" >>)
    /\ IF truthCalls = 0
       THEN pc' = "truth" /\ err' = err
       ELSE pc' = "failed" /\ err' = "SolverDivergence"
    /\ UNCHANGED << otherThanOffline, run, config, mu, N, Z, snapshot, built, need,
                    greedyLocals, disk, ghosts >>

(* truth_problem.solve() raises: nothing in offline() catches it *)
TruthSolveFail ==
    /\ pc = "truth"
    /\ truthCalls' = truthCalls + 1
    /\ log' = Append(log, << run, "truth_solve" >>)
    /\ pc' = "failed"
    /\ err' = "SolverDivergence"
    /\ UNCHANGED << otherThanOffline, run, config, mu, N, Z, snapshot, built, need,
                    greedyLocals, disk, ghosts >>

(* A variant that saves the basis without orthogonalizing it *)
EnrichSkipsGramSchmidt ==
    /\ pc = "enrich"
    /\ Z' = Append(Z, snapshot)
    /\ log' = Append(log, << run, "enrich" >>)
    /\ pc' = "save"
    /\ UNCHANGED << otherThanOffline, run, config, mu, N, snapshot, built, need, err,
                    greedyLocals, disk, truthCalls, ghosts >>

(* self.reduced_problem.Z.enrich(snapshot), line 141 *)
Enrich ==
    /\ pc = "enrich"
    /\ Z' = Append(Z, snapshot)
    /\ log' = Append(log, << run, "enrich" >>)
    /\ pc' = "gs"
    /\ UNCHANGED << otherThanOffline, run, config, mu, N, snapshot, built, need, err,
                    greedyLocals, disk, truthCalls, ghosts >>

(* self.GS.apply(self.Z), line 142. When the norm of the projected vector *)
(* is zero the division either raises or leaves a vector that is not      *)
(* finite, depending on the vector type of the backend.                   *)
GSApplyReturns ==
    /\ pc = "gs"
    /\ Z' = GSapply(Z)
    /\ log' = Append(log, << run, "gram_schmidt" >>)
    /\ pc' = "save"
    /\ UNCHANGED << otherThanOffline, run, config, mu, N, snapshot, built, need, err,
                    greedyLocals, disk, truthCalls, ghosts >>

GSApplyRaises ==
    /\ pc = "gs"
    /\ ResidualNorm(Z) = 0
    /\ log' = Append(log, << run, "gram_schmidt" >>)
    /\ pc' = "failed"
    /\ err' = "ZeroDivisionError"
    /\ UNCHANGED << otherThanOffline, run, config, mu, N, Z, snapshot, built, need,
                    greedyLocals, disk, truthCalls, ghosts >>

(* A variant that saves the first N vectors only *)
SaveBasisFirstN ==
    /\ pc = "save"
    /\ diskZ' = SubSeq(Z, 1, N)
    /\ log' = Append(log, << run, "save" >>)
    /\ pc' = "incr"
    /\ UNCHANGED << otherThanOffline, run, config, mu, N, Z, snapshot, built, need, err,
                    greedyLocals, deltaFile, muFile, folders, exported,
                    truthCalls, ghosts >>

(* self.reduced_problem.Z.save(self.basis_folder, "basis"), line 143 *)
SaveBasis ==
    /\ pc = "save"
    /\ diskZ' = Z
    /\ log' = Append(log, << run, "save" >>)
    /\ pc' = "incr"
    /\ UNCHANGED << otherThanOffline, run, config, mu, N, Z, snapshot, built, need, err,
                    greedyLocals, deltaFile, muFile, folders, exported,
                    truthCalls, ghosts >>

(* A variant that counts the new vector twice *)
IncrementNTwice ==
    /\ pc = "incr"
    /\ N' = N + 2
    /\ log' = Append(log, << run, "increment_N" >>)
    /\ pc' = "build_ops"
    /\ UNCHANGED << otherThanOffline, run, config, mu, Z, snapshot, built, need, err,
                    greedyLocals, disk, truthCalls, ghosts >>

(* self.reduced_problem.N += 1, line 144 *)
IncrementN ==
    /\ pc = "incr"
    /\ N' = N + 1
    /\ log' = Append(log, << run, "increment_N" >>)
    /\ pc' = "build_ops"
    /\ UNCHANGED << otherThanOffline, run, config, mu, Z, snapshot, built, need, err,
                    greedyLocals, disk, truthCalls, ghosts >>

(* self.reduced_problem.build_reduced_operators(), line 147 *)
BuildReducedOperators ==
    /\ pc = "build_ops"
    /\ built' = [built EXCEPT !.ops = N]
    /\ log' = Append(log, << run, "build_reduced_operators" >>)
    /\ pc' = "rsolve"
    /\ UNCHANGED << otherThanOffline, run, config, mu, N, Z, snapshot, need, err,
                    greedyLocals, disk, truthCalls, ghosts >>

(* self.reduced_problem._solve(self.N), line 150 *)
ReducedSolve ==
    /\ pc = "rsolve"
    /\ built' = [built EXCEPT !.sol = N]
    /\ log' = Append(log, << run, "reduced_solve" >>)
    /\ pc' = "build_err"
    /\ UNCHANGED << otherThanOffline, run, config, mu, N, Z, snapshot, need, err,
                    greedyLocals, disk, truthCalls, ghosts >>

(* self.reduced_problem.build_error_estimation_matrices(), line 153 *)
BuildErrorEstimation ==
    /\ pc = "build_err"
    /\ built' = [built EXCEPT !.err = N]
    /\ log' = Append(log, << run, "build_error_estimation_matrices" >>)
    /\ pc' = "greedy"
    /\ UNCHANGED << otherThanOffline, run, config, mu, N, Z, snapshot, need, err,
                    greedyLocals, disk, truthCalls, ghosts >>

-----------------------------------------------------------------------------
(* greedy(), lines 172-185 *)

(* A variant with the comparison reversed *)
GreedyTestReversed(delta, dmax, draw) == dmax < 0 \/ delta < dmax \/ (delta = dmax /\ draw)

(* A variant that replaces the incumbent on every tie *)
GreedyTestNoDraw(delta, dmax, draw) == delta >= dmax

(* The test of line 179; draw is random.random() >= 0.5 *)
GreedyTest(delta, dmax, draw) == delta > dmax \/ (delta = dmax /\ draw)

(* What the test of line 179 decided, for the record of the scan *)
Pick(delta, dmax, draw) ==
    IF delta > dmax THEN "greater"
    ELSE IF delta < dmax THEN "smaller"
    ELSE IF draw THEN "tie_replaced" ELSE "tie_kept"

(* delta_max = -1.0; munew = None, lines 173-174 *)
GreedyBegin ==
    /\ pc = "greedy"
    /\ gi' = 0
    /\ delta_max' = 0 - 1
    /\ munew' = NoneMu
    /\ deltas' = << >>
    /\ picks' = << >>
    /\ log' = Append(log, << run, "greedy" >>)
    /\ pc' = "scan"
    /\ UNCHANGED << otherThanOffline, run, config, mu, N, Z, snapshot, built, need, err,
                    disk, truthCalls, ghosts >>

(* One pass of the loop body, lines 175-181. get_delta() is the error     *)
(* bound of the reduced problem at mu: any value in 0 .. MaxDelta.        *)
(* random.random() is evaluated only when delta == delta_max.             *)
GreedyScan ==
    /\ pc = "scan"
    /\ gi < Len(xi_train)
    /\ \E delta \in 0 .. MaxDelta :
       \E draw \in IF delta = delta_max THEN BOOLEAN ELSE { FALSE } :
          /\ mu' = xi_train[gi + 1]
          /\ built' = [built EXCEPT !.sol = N]
          /\ IF GreedyTest(delta, delta_max, draw)
             THEN /\ delta_max' = delta
                  /\ munew' = xi_train[gi + 1]
             ELSE /\ delta_max' = delta_max
                  /\ munew' = munew
          /\ deltas' = Append(deltas, delta)
          /\ picks' = Append(picks, Pick(delta, delta_max, draw))
    /\ gi' = gi + 1
    /\ UNCHANGED << otherThanOffline, pc, run, config, N, Z, snapshot, need, err, disk, log,
                    truthCalls, ghosts >>

(* A variant without the assertion *)
GreedyEndNoAssert ==
    /\ pc = "scan"
    /\ gi = Len(xi_train)
    /\ pc' = "save_delta"
    /\ mu' = munew
    /\ UNCHANGED << otherThanOffline, run, config, N, Z, snapshot, built, need, err, greedyLocals,
                    disk, log, truthCalls, ghosts >>

(* A variant that leaves the parameter at the last one scanned *)
GreedyEndLeavesScanMu ==
    /\ pc = "scan"
    /\ gi = Len(xi_train)
    /\ IF munew = NoneMu
       THEN /\ pc' = "failed"
            /\ err' = "AssertionError"
       ELSE /\ pc' = "save_delta"
            /\ err' = err
    /\ UNCHANGED << otherThanOffline, run, config, mu, N, Z, snapshot, built, need,
                    greedyLocals, disk, log, truthCalls, ghosts >>

(* assert munew != None; self.setmu(munew), lines 182-184 *)
GreedyEnd ==
    /\ pc = "scan"
    /\ gi = Len(xi_train)
    /\ IF munew = NoneMu
       THEN /\ pc' = "failed"
            /\ err' = "AssertionError"
            /\ mu' = mu
       ELSE /\ pc' = "save_delta"
            /\ err' = err
            /\ mu' = munew
    /\ UNCHANGED << otherThanOffline, run, config, N, Z, snapshot, built, need, greedyLocals,
                    disk, log, truthCalls, ghosts >>

(* save_greedy_post_processing_file, lines 271-272 *)
SaveDeltaMax ==
    /\ pc = "save_delta"
    /\ deltaFile' = Append(deltaFile, << N, delta_max >>)
    /\ pc' = "save_mu"
    /\ UNCHANGED << otherThanOffline, run, config, mu, N, Z, snapshot, built, need, err,
                    greedyLocals, diskZ, muFile, folders, exported, log,
                    truthCalls, ghosts >>

(* save_greedy_post_processing_file, lines 273-274; greedy() and the      *)
(* iteration end here                                                     *)
SaveMuGreedy ==
    /\ pc = "save_mu"
    /\ muFile' = Append(muFile, munew)
    /\ log' = Append(log, << run, "greedy_done" >>)
    /\ chk' = [ N |-> N, Z |-> Z,
                disk |-> [ diskZ |-> diskZ, deltaFile |-> deltaFile,
                           muFile |-> Append(muFile, munew), exported |-> exported ] ]
    /\ gi' = 0
    /\ delta_max' = 0 - 1
    /\ munew' = NoneMu
    /\ deltas' = << >>
    /\ picks' = << >>
    /\ run' = run + 1
    /\ pc' = "loop"
    /\ UNCHANGED << otherThanOffline, config, mu, N, Z, snapshot, built, need, err,
                    diskZ, deltaFile, folders, exported,
                    truthCalls, entry, prev, restarts, lastExit >>

-----------------------------------------------------------------------------
(* The text of the two files of the greedy trace. A text is a sequence of *)
(* tokens: the decimal string of a number, or one character.              *)

Num(n) == << "num", n >>
Space == << "chr", " " >>
Newline == << "chr", "\n" >>

(* str(N) + " " + str(delta_max), line 272 *)
str_delta_max(rec) == << Num(rec[1]), Space, Num(rec[2]) >>

(* str(mu_greedy), line 274 *)
str_mu_greedy(m) == << Num(m) >>

(* open(..., "a") and write, lines 271-274: the text of a file is what    *)
(* the calls of write() wrote, one after the other                        *)
RECURSIVE FileText(_, _)
FileText(writes, k) ==
    IF k = 0 THEN << >> ELSE FileText(writes, k - 1) \o writes[k]

delta_max_txt == FileText([ i \in 1 .. Len(deltaFile) |-> str_delta_max(deltaFile[i]) ],
                          Len(deltaFile))
mu_greedy_txt == FileText([ i \in 1 .. Len(muFile) |-> str_mu_greedy(muFile[i]) ],
                          Len(muFile))

-----------------------------------------------------------------------------
(* The caller and the environment *)

MaxCalls == 2

(* offline() is called again in the same process after it returned *)
CallAgain ==
    /\ pc = "done"
    /\ prev.calls + 1 < MaxCalls
    /\ prev' = [ calls |-> prev.calls + 1, N |-> N, Z |-> Z ]
    /\ pc' = "init"
    /\ UNCHANGED << otherThanOffline, run, config, mu, N, Z, snapshot, built, need, err,
                    greedyLocals, disk, log, truthCalls, chk, entry, restarts,
                    lastExit >>

(* The memory of a process that has just been started: the state the      *)
(* constructors leave                                                     *)
Fresh ==
    /\ run' = 0
    /\ mu' = mu0
    /\ N' = 0
    /\ Z' = << >>
    /\ snapshot' = NaNVec
    /\ built' = [ ops |-> 0, sol |-> 0, err |-> 0 ]
    /\ need' = TRUE
    /\ err' = "none"
    /\ gi' = 0
    /\ delta_max' = 0 - 1
    /\ munew' = NoneMu
    /\ deltas' = << >>
    /\ picks' = << >>
    /\ log' = << >>
    /\ truthCalls' = 0
    /\ prev' = NoPrev

(* The process is stopped from outside while offline() runs; its memory   *)
(* is gone                                                                *)
Interrupt ==
    /\ pc \in Running
    /\ restarts < MaxRestarts
    /\ pc' = "killed"
    /\ Fresh
    /\ UNCHANGED << otherThanOffline, config, disk, chk, entry, restarts, lastExit >>

(* A new process: the objects are constructed again, the disk is kept *)
Restart ==
    /\ pc \in { "killed", "failed", "done" }
    /\ restarts < MaxRestarts
    /\ restarts' = restarts + 1
    /\ lastExit' = pc
    /\ pc' = "init"
    /\ Fresh
    /\ UNCHANGED << otherThanOffline, config, disk, chk, entry >>

(* One step of a call of offline() *)
OfflineStep ==
    \/ InitOffline
    \/ LoopHead
    \/ TruthSolveOk
    \/ TruthSolveFail
    \/ Enrich
    \/ GSApplyReturns
    \/ GSApplyRaises
    \/ SaveBasis
    \/ IncrementN
    \/ BuildReducedOperators
    \/ ReducedSolve
    \/ BuildErrorEstimation
    \/ GreedyBegin
    \/ GreedyScan
    \/ GreedyEnd
    \/ SaveDeltaMax
    \/ SaveMuGreedy

Next == OfflineStep \/ CallAgain

NextRestart == OfflineStep \/ CallAgain \/ Interrupt \/ Restart

(* One process that calls offline() *)
Spec == Init /\ [][Next]_vars

(* Processes that can be stopped and started again on the same disk *)
SpecRestart == Init /\ [][NextRestart]_vars

-----------------------------------------------------------------------------
(* GramSchmidt.apply(Z), lines 39-48 of gram_schmidt.py, step by step.    *)
(* The caller passes any list of vectors.                                  *)

(* The first vector of a basis built from the snapshot at m *)
UnitSnapshot(m) == GSapply(<< TruthSolution(m) >>)[1]

(* The vectors a caller has: snapshots, basis vectors and the zero vector *)
GSVectors ==
    { TruthSolution(m) : m \in Mus } \cup { UnitSnapshot(m) : m \in Mus } \cup { << 0, 0 >> }

RECURSIVE SeqsOf(_, _)
SeqsOf(S, k) ==
    IF k = 0 THEN { << >> }
    ELSE SeqsOf(S, k - 1) \cup { Append(q, x) : q \in SeqsOf(S, k - 1), x \in S }

(* What the other operations leave alone when apply() is followed alone *)
OfflineIdle ==
    /\ Nmax = 1
    /\ xi_train = << >>
    /\ mu0 = 1
    /\ pc = "idle"
    /\ NotStarted

InitGS ==
    /\ OfflineIdle
    /\ EAIdle
    /\ RMIdle
    /\ SCMIdle
    /\ FSIdle
    /\ SVIdle
    /\ gsZ \in SeqsOf(GSVectors, MaxNmax)
    /\ gsIn = gsZ
    /\ gsPc = "call"
    /\ gs_i = 0
    /\ gs_b = NaNVec
    /\ gs_alias = FALSE
    /\ gsTrace = << >>
    /\ gsErr = "none"

(* A variant that returns at once when the basis is empty *)
GSCallSilentOnEmpty ==
    /\ gsPc = "call"
    /\ IF Len(gsZ) = 0
       THEN /\ gsPc' = "returned"
            /\ UNCHANGED << gs_b, gs_alias >>
       ELSE /\ gsPc' = "loop"
            /\ gs_b' = gsZ[Len(gsZ)]
            /\ gs_alias' = TRUE
    /\ gs_i' = 0
    /\ UNCHANGED << otherThanGS, gsZ, gsIn, gsTrace, gsErr >>

(* n_basis = len(Z); b = Z[n_basis - 1], lines 44-45: b refers to the     *)
(* last element of Z; Z[-1] of an empty list raises IndexError            *)
GSCall ==
    /\ gsPc = "call"
    /\ IF Len(gsZ) = 0
       THEN /\ gsPc' = "raised"
            /\ gsErr' = "IndexError"
            /\ UNCHANGED << gs_b, gs_alias >>
       ELSE /\ gsPc' = "loop"
            /\ gsErr' = gsErr
            /\ gs_b' = gsZ[Len(gsZ)]
            /\ gs_alias' = TRUE
    /\ gs_i' = 0
    /\ UNCHANGED << otherThanGS, gsZ, gsIn, gsTrace >>

(* A variant whose loop also projects the last vector against itself *)
ProjectionStepsAll(n_basis) == n_basis

(* range(n_basis - 1), line 46 *)
ProjectionSteps(n_basis) == n_basis - 1

(* What a write through b does to Z *)
WriteThrough(v) == IF gs_alias THEN [gsZ EXCEPT ![Len(gsZ)] = v] ELSE gsZ

(* b = self.wrapping.gram_schmidt_projection_step(b, X, Z[i], ...), line  *)
(* 47: the step updates the vector it is given and returns it             *)
GSProject ==
    /\ gsPc = "loop"
    /\ gs_i < ProjectionSteps(Len(gsZ))
    /\ LET v == gram_schmidt_projection_step(gs_b, gsZ[gs_i + 1])
       IN  /\ gs_b' = v
           /\ gsZ' = WriteThrough(v)
    /\ gsTrace' = Append(gsTrace, << "project", gs_i, gsZ[gs_i + 1] >>)
    /\ gs_i' = gs_i + 1
    /\ UNCHANGED << otherThanGS, gsPc, gsIn, gs_alias, gsErr >>

(* sqrt(transpose(b)*X*b), line 48 *)
NormOf(b) == IF IsNaN(b) THEN 0 ELSE Sqrt(Inner(b, b))

(* b / norm; a zero norm leaves a vector that is not finite *)
Divided(b, nrm) == IF IsNaN(b) \/ nrm = 0 THEN NaNVec ELSE Normalized(b, nrm)

(* A variant that binds b to the quotient instead of updating the vector *)
GSNormalizeRebinds ==
    /\ gsPc = "loop"
    /\ gs_i >= ProjectionSteps(Len(gsZ))
    /\ gs_b' = Divided(gs_b, NormOf(gs_b))
    /\ gs_alias' = FALSE
    /\ gsTrace' = Append(gsTrace, << "normalize", Len(gsZ) - 1 >>)
    /\ gsPc' = "returned"
    /\ UNCHANGED << otherThanGS, gsZ, gsIn, gs_i, gsErr >>

(* b.vector()[:] /= sqrt(transpose(b)*X*b), line 48: the entries of the   *)
(* vector b refers to are overwritten                                     *)
GSNormalizeReturns ==
    /\ gsPc = "loop"
    /\ gs_i >= ProjectionSteps(Len(gsZ))
    /\ LET v == Divided(gs_b, NormOf(gs_b))
       IN  /\ gs_b' = v
           /\ gsZ' = WriteThrough(v)
    /\ gsTrace' = Append(gsTrace, << "normalize", Len(gsZ) - 1 >>)
    /\ gsPc' = "returned"
    /\ UNCHANGED << otherThanGS, gsIn, gs_i, gs_alias, gsErr >>

(* Line 48 when the norm is zero and the division raises *)
GSNormalizeRaises ==
    /\ gsPc = "loop"
    /\ gs_i >= ProjectionSteps(Len(gsZ))
    /\ NormOf(gs_b) = 0
    /\ gsTrace' = Append(gsTrace, << "normalize", Len(gsZ) - 1 >>)
    /\ gsPc' = "raised"
    /\ gsErr' = "ZeroDivisionError"
    /\ UNCHANGED << otherThanGS, gsZ, gsIn, gs_i, gs_b, gs_alias >>

NextGS == GSCall \/ GSProject \/ GSNormalizeReturns \/ GSNormalizeRaises

(* One call of GramSchmidt.apply on any list of vectors *)
SpecGS == InitGS /\ [][NextGS]_vars

-----------------------------------------------------------------------------
(* error_analysis(N), lines 196-259, step by step, on the basis that a    *)
(* completed offline stage left.                                          *)

MaxTest == 2

(* Floating-point values: a finite number in fixed point, nan or inf *)
FNum(v) == << "num", v >>
FNaN == << "nan", 0 >>
FInf == << "inf", 0 >>
IsNum(x) == x[1] = "num"

(* x / y of numpy floats: a division by zero gives inf or nan and only a  *)
(* warning                                                                *)
FDiv(x, y) ==
    IF x = FNaN \/ y = FNaN THEN FNaN
    ELSE IF x = FInf THEN (IF y = FInf THEN FNaN ELSE FInf)
    ELSE IF y = FInf THEN FNum(0)
    ELSE IF y[2] = 0 THEN (IF x[2] = 0 THEN FNaN ELSE FInf)
    ELSE FNum((x[2] * SCALE) \div y[2])

(* x * x *)
FSquare(x) == IF IsNum(x) THEN FNum((x[2] * x[2]) \div SCALE) ELSE x

(* The basis offline() leaves when the greedy selects the parameters ms *)
RECURSIVE BasisOf(_, _)
BasisOf(ms, k) ==
    IF k = 0 THEN << >>
    ELSE GSapply(Append(BasisOf(ms, k - 1), TruthSolution(ms[k])))

EABases == { BasisOf(Enumeration(first, k), k) : first \in Mus, k \in 0 .. MaxNmax }
TestSets == { Enumeration(first, k) : first \in Mus, k \in 0 .. MaxTest }

(* reduced_problem.compute_error(n, True): the error of the reduced       *)
(* solution in the span of the first n basis vectors, for the solution    *)
(* and for the compliant output                                           *)
compute_error(Zs, n, m) ==
    LET q == Append(SubSeq(Zs, 1, n), TruthSolution(m))
        r == Projected(q, n)
        e == IF IsNaN(r) THEN FNaN ELSE FNum(Sqrt(Inner(r, r)))
    IN  << e, FSquare(e) >>

(* get_delta(): a bound that is zero, or one that is not *)
Deltas == { FNum(0), FNum(SCALE) }

(* get_delta_output(): the square of get_delta() *)
get_delta_output(d) == FSquare(d)

InitEA ==
    /\ OfflineIdle
    /\ GSIdle
    /\ RMIdle
    /\ SCMIdle
    /\ FSIdle
    /\ SVIdle
    /\ eaZ \in EABases
    /\ eaN = Len(eaZ)
    /\ argN \in { NoneN } \cup (0 .. eaN)
    /\ xi_test \in TestSets
    /\ eaMu \in Mus
    /\ eaPc = "call"
    /\ ea_N = 0
    /\ ea_run = 0
    /\ ea_n = 0
    /\ error_u = << >> /\ delta_u = << >> /\ effectivity_u = << >>
    /\ error_s = << >> /\ delta_s = << >> /\ effectivity_s = << >>
    /\ report_u = << >>
    /\ report_s = << >>
    /\ eaTrace = << >>
    /\ eaErr = "none"
    /\ eaIn = [ Z |-> eaZ, N |-> eaN ]

eaArrays == << error_u, delta_u, effectivity_u, error_s, delta_s, effectivity_s >>
eaState == << eaZ, eaN, argN, xi_test, eaIn >>

(* np.zeros((N, len(self.xi_test))) *)
Zeros(n, l) == [ i \in 1 .. n |-> [ j \in 1 .. l |-> FNum(0) ] ]

(* Lines 197-210 *)
EACall ==
    /\ eaPc = "call"
    /\ LET n == IF argN = NoneN THEN eaN ELSE argN
           z == Zeros(n, Len(xi_test))
       IN  /\ ea_N' = n
           /\ error_u' = z /\ delta_u' = z /\ effectivity_u' = z
           /\ error_s' = z /\ delta_s' = z /\ effectivity_s' = z
    /\ ea_run' = 0
    /\ eaPc' = "outer"
    /\ UNCHANGED << otherThanEA, eaState, eaMu, ea_n, report_u, report_s, eaTrace, eaErr >>

(* for run in range(len(self.xi_test)): setmu, lines 212-215 *)
EAOuter ==
    /\ eaPc = "outer"
    /\ IF ea_run < Len(xi_test)
       THEN /\ eaMu' = xi_test[ea_run + 1]
            /\ eaPc' = "inner"
       ELSE /\ eaMu' = eaMu
            /\ eaPc' = "stats_u"
    /\ ea_n' = 0
    /\ UNCHANGED << otherThanEA, eaState, ea_N, ea_run, eaArrays, report_u, report_s,
                    eaTrace, eaErr >>

(* A variant that passes n instead of n + 1 *)
BasisSizeSkewed(n) == n

(* The first argument of compute_error, line 218 *)
BasisSize(n) == n + 1

(* The body of "for n in range(N)", lines 218-226 *)
EAEntry ==
    /\ eaPc = "inner"
    /\ ea_n < ea_N
    /\ \E d \in Deltas :
          LET e   == compute_error(eaZ, BasisSize(ea_n), eaMu)
              row == ea_n + 1
              col == ea_run + 1
          IN  /\ error_u' = [error_u EXCEPT ![row][col] = e[1]]
              /\ delta_u' = [delta_u EXCEPT ![row][col] = d]
              /\ effectivity_u' = [effectivity_u EXCEPT ![row][col] = FDiv(d, e[1])]
              /\ error_s' = [error_s EXCEPT ![row][col] = e[2]]
              /\ delta_s' = [delta_s EXCEPT ![row][col] = get_delta_output(d)]
              /\ effectivity_s' = [effectivity_s EXCEPT ![row][col] =
                                       FDiv(get_delta_output(d), e[2])]
    /\ eaTrace' = Append(eaTrace, << ea_run, ea_n, BasisSize(ea_n) >>)
    /\ ea_n' = ea_n + 1
    /\ UNCHANGED << otherThanEA, eaState, eaMu, eaPc, ea_N, ea_run, report_u, report_s, eaErr >>

(* The end of "for n in range(N)" *)
EANextRun ==
    /\ eaPc = "inner"
    /\ ea_n >= ea_N
    /\ ea_run' = ea_run + 1
    /\ eaPc' = "outer"
    /\ UNCHANGED << otherThanEA, eaState, eaMu, ea_N, ea_n, eaArrays, report_u, report_s,
                    eaTrace, eaErr >>

(* np.min and np.max of a row: nan if an entry is nan *)
HasNaN(row) == \E j \in 1 .. Len(row) : row[j] = FNaN
HasInf(row) == \E j \in 1 .. Len(row) : row[j] = FInf
HasZero(row) == \E j \in 1 .. Len(row) : row[j] = FNum(0)
Finite(row) == { row[j][2] : j \in { k \in 1 .. Len(row) : IsNum(row[k]) } }
FMin(row) ==
    IF HasNaN(row) THEN FNaN
    ELSE IF Finite(row) = { } THEN FInf
    ELSE FNum(CHOOSE x \in Finite(row) : \A y \in Finite(row) : x <= y)
FMax(row) ==
    IF HasNaN(row) THEN FNaN
    ELSE IF HasInf(row) THEN FInf
    ELSE FNum(CHOOSE x \in Finite(row) : \A y \in Finite(row) : y <= x)

(* np.exp(np.mean(np.log(row))): the geometric mean of the entries when   *)
(* they are finite and positive                                           *)
GMean(row) ==
    IF HasNaN(row) \/ Len(row) = 0 \/ (HasZero(row) /\ HasInf(row)) THEN FNaN
    ELSE IF HasZero(row) THEN FNum(0)
    ELSE IF HasInf(row) THEN FInf
    ELSE << "gmean", row >>

(* One printed row, lines 232-240 and 245-253 *)
StatsRow(n, er, de, ef) ==
    << n, GMean(er[n]), GMean(de[n]), FMin(ef[n]), GMean(ef[n]), FMax(ef[n]) >>

(* The first table, lines 229-240. np.min of an empty row raises. *)
EAStatsU ==
    /\ eaPc = "stats_u"
    /\ IF ea_N > 0 /\ Len(xi_test) = 0
       THEN /\ eaPc' = "failed"
            /\ eaErr' = "ValueError"
            /\ report_u' = report_u
       ELSE /\ eaPc' = "stats_s"
            /\ eaErr' = eaErr
            /\ report_u' = [ n \in 1 .. ea_N |->
                               StatsRow(n, error_u, delta_u, effectivity_u) ]
    /\ UNCHANGED << otherThanEA, eaState, eaMu, ea_N, ea_run, ea_n, eaArrays, report_s,
                    eaTrace >>

(* The second table, lines 242-259 *)
EAStatsS ==
    /\ eaPc = "stats_s"
    /\ report_s' = [ n \in 1 .. ea_N |-> StatsRow(n, error_s, delta_s, effectivity_s) ]
    /\ eaPc' = "done"
    /\ UNCHANGED << otherThanEA, eaState, eaMu, ea_N, ea_run, ea_n, eaArrays, report_u,
                    eaTrace, eaErr >>

NextEA == EACall \/ EAOuter \/ EAEntry \/ EANextRun \/ EAStatsU \/ EAStatsS

(* One call of error_analysis *)
SpecEA == InitEA /\ [][NextEA]_vars

-----------------------------------------------------------------------------
(* ReducedMesh: append, save and load, as the test                        *)
(* src/tests/unit/test_reduced_mesh.py uses them (elliptic case).         *)

MaxParts == 2
MaxAppends == 2
MaxRuns == 2

(* The mesh and the function space V: a strip of cells 0 .. NCells - 1    *)
(* with one DOF on each vertex; DOF d touches the cells d - 1 and d       *)
NCells == 4
Cells == 0 .. (NCells - 1)
Dofs == 0 .. NCells
CellsOfDof(d) == { c \in Cells : c = d \/ c = d - 1 }

(* The mixed space U: the DOFs of V, then one DOF inside each cell;       *)
(* V is U.sub(0).collapse()                                               *)
DofsU == 0 .. (2 * NCells)
CellsOfDofU(d) == IF d <= NCells THEN CellsOfDof(d) ELSE { d - NCells - 1 }

DofsIn(sp) == IF sp = "V" THEN Dofs ELSE DofsU
CellsOfDofIn(sp, d) == IF sp = "V" THEN CellsOfDof(d) ELSE CellsOfDofU(d)

(* ReducedMesh((V, V)) and ReducedMesh((V, U)) *)
RMSpaces == { << "V", "V" >>, << "V", "U" >> }

(* The DOF tuples the test appends: two with a DOF in common, one with    *)
(* both DOFs equal                                                        *)
RMDofPairs == { << 0, 1 >>, << 2, 3 >>, << 4, 3 >>, << 1, 1 >> }

(* The DOF tuples of the collapsed case, the second DOF in U *)
RMDofPairsCollapsed == { << 1, 0 >>, << 4, 7 >>, << 3, 5 >>, << 2, 8 >> }

RMDofPairsOf(spaces) == IF spaces[2] = "V" THEN RMDofPairs ELSE RMDofPairsCollapsed

(* The partition that owns a cell when the mesh is split in parts *)
Owner(c, parts) == (c % parts) + 1
Scatter(cells, parts) == [ p \in 1 .. parts |-> { c \in cells : Owner(c, parts) = p } ]

(* The accumulated cell set of a mesh that is split *)
AccumulatedCells(marked) == UNION { marked[p] : p \in 1 .. Len(marked) }

(* The reduced function space on a cell set: its DOFs are the DOFs that   *)
(* touch a cell of the set, numbered in their order                       *)
ActiveDofs(sp, cells) == { d \in DofsIn(sp) : CellsOfDofIn(sp, d) \cap cells # { } }
ReducedIndex(sp, cells, d) == Cardinality({ e \in ActiveDofs(sp, cells) : e < d })
ReducedPair(cells, pair) ==
    << ReducedIndex(rmSpaces[1], cells, pair[1]), ReducedIndex(rmSpaces[2], cells, pair[2]) >>

(* A variant that keeps the indices recorded before and computes only    *)
(* those of the new tuple                                                 *)
ReducedDofsNewOnly(cells, dl) == Append(reduced_dofs_list, ReducedPair(cells, dl[Len(dl)]))

(* The reduced indices of all the tuples, computed again on the cells *)
ReducedDofs(cells, dl) == [ i \in 1 .. Len(dl) |-> ReducedPair(cells, dl[i]) ]

(* The DOF of the full space that a DOF of the reduced space stands for *)
NoDof == 0 - 1
OriginalDof(sp, cells, r) ==
    LET active == ActiveDofs(sp, cells)
    IN  IF r \in 0 .. (Cardinality(active) - 1)
        THEN CHOOSE d \in active : Cardinality({ e \in active : e < d }) = r
        ELSE NoDof

(* assemble(form) on the full mesh, read at a DOF tuple: the basis        *)
(* functions of the entry and the cells whose integrals are summed in it  *)
FullEntry(spaces, pair) ==
    [ test  |-> pair[1],
      trial |-> pair[2],
      cells |-> CellsOfDofIn(spaces[1], pair[1]) \cap CellsOfDofIn(spaces[2], pair[2]) ]

(* assemble(form) on the reduced spaces, read at a reduced DOF tuple *)
ReducedEntry(spaces, cells, rpair) ==
    LET i == OriginalDof(spaces[1], cells, rpair[1])
        j == OriginalDof(spaces[2], cells, rpair[2])
    IN  [ test  |-> i,
          trial |-> j,
          cells |-> IF i = NoDof \/ j = NoDof THEN { }
                    ELSE cells \cap CellsOfDofIn(spaces[1], i) \cap CellsOfDofIn(spaces[2], j) ]

(* evaluate_and_vectorize_sparse_matrix_at_dofs on the full and on the    *)
(* reduced mesh                                                           *)
A_dofs(spaces, dl) == [ k \in 1 .. Len(dl) |-> FullEntry(spaces, dl[k]) ]
A_N_reduced_dofs(spaces, cells, rl) ==
    [ k \in 1 .. Len(rl) |-> ReducedEntry(spaces, cells, rl[k]) ]

InitRM ==
    /\ OfflineIdle
    /\ GSIdle
    /\ EAIdle
    /\ SCMIdle
    /\ FSIdle
    /\ SVIdle
    /\ rmSpaces \in RMSpaces
    /\ rmParts \in 1 .. MaxParts
    /\ rmMarked = Scatter({ }, rmParts)
    /\ dofs_list = << >>
    /\ reduced_dofs_list = << >>
    /\ rmDisk = NoFile
    /\ rmLoaded = NoMesh
    /\ rmOp = << "run" >>
    /\ rmAppends = 0
    /\ rmRuns = 1
    /\ rmSaved = [ cells |-> { }, dofs |-> << >>, reduced |-> << >>, parts |-> 0 ]

(* A variant that never finds the tuple *)
AlreadyAddedNever(dl, pair) == FALSE

(* Whether the exact tuple was appended before *)
AlreadyAdded(dl, pair) == \E i \in 1 .. Len(dl) : dl[i] = pair

(* The cells that touch a DOF of the tuple, each in its function space *)
CellsTouching(pair) ==
    CellsOfDofIn(rmSpaces[1], pair[1]) \cup CellsOfDofIn(rmSpaces[2], pair[2])

(* A variant that keeps the cells of the new tuple only *)
AccumulateNewOnly(cells, new) == new

(* The cells are added to the accumulated set *)
Accumulate(cells, new) == cells \cup new

(* reduced_mesh.append(pair), lines 59-61 of the test: a tuple that was   *)
(* appended before changes nothing; otherwise its cells are added, the    *)
(* reduced spaces are built again on all the cells, and the tuple and its *)
(* reduced indices are recorded                                           *)
RMAppend ==
    /\ rmOp[1] # "idle"
    /\ rmAppends < MaxAppends
    /\ \E pair \in RMDofPairsOf(rmSpaces) :
          IF AlreadyAdded(dofs_list, pair)
          THEN /\ rmOp' = << "append", pair, TRUE >>
               /\ UNCHANGED << rmMarked, dofs_list, reduced_dofs_list >>
          ELSE LET cells == Accumulate(AccumulatedCells(rmMarked), CellsTouching(pair))
                   dl    == Append(dofs_list, pair)
               IN  /\ rmMarked' = Scatter(cells, rmParts)
                   /\ dofs_list' = dl
                   /\ reduced_dofs_list' = ReducedDofs(cells, dl)
                   /\ rmOp' = << "append", pair, FALSE >>
    /\ rmAppends' = rmAppends + 1
    /\ UNCHANGED << otherThanRM, rmSpaces, rmParts, rmDisk, rmLoaded, rmRuns, rmSaved >>

(* A variant in which only the first partition writes its cells *)
GatherFirstOnly(marked) == marked[1]

(* What save() writes of the cells: the cells of all the partitions *)
Gather(marked) == AccumulatedCells(marked)

(* reduced_mesh.save(directory, label), lines 75-76 of the test *)
RMSave ==
    /\ rmOp[1] # "idle"
    /\ rmDisk' = [ cells |-> Gather(rmMarked), dofs |-> dofs_list,
                   reduced |-> reduced_dofs_list, exists |-> TRUE ]
    /\ rmSaved' = [ cells |-> AccumulatedCells(rmMarked), dofs |-> dofs_list,
                    reduced |-> reduced_dofs_list, parts |-> rmParts ]
    /\ rmOp' = << "save" >>
    /\ UNCHANGED << otherThanRM, rmSpaces, rmParts, rmMarked, dofs_list, reduced_dofs_list,
                    rmLoaded, rmAppends, rmRuns >>

(* reduced_mesh_loaded = ReducedMesh((V, V)); reduced_mesh_loaded.load(   *)
(* directory, label), lines 107-108 of the test                           *)
RMLoad ==
    /\ rmOp[1] # "idle"
    /\ rmLoaded' = IF rmDisk.exists
                   THEN [ marked |-> Scatter(rmDisk.cells, rmParts), dofs |-> rmDisk.dofs,
                          reduced |-> rmDisk.reduced, exists |-> TRUE ]
                   ELSE NoMesh
    /\ rmOp' = << "load", rmDisk.exists >>
    /\ UNCHANGED << otherThanRM, rmSpaces, rmParts, rmMarked, dofs_list, reduced_dofs_list,
                    rmDisk, rmAppends, rmRuns, rmSaved >>

(* The test is run again, on any number of partitions; the files stay     *)
(* (lines 33-36 and 56 of the test)                                       *)
RMNewRun ==
    /\ rmOp[1] # "idle"
    /\ rmRuns < MaxRuns
    /\ rmRuns' = rmRuns + 1
    /\ \E parts \in 1 .. MaxParts :
          /\ rmParts' = parts
          /\ rmMarked' = Scatter({ }, parts)
    /\ dofs_list' = << >>
    /\ reduced_dofs_list' = << >>
    /\ rmLoaded' = NoMesh
    /\ rmAppends' = 0
    /\ rmOp' = << "run" >>
    /\ UNCHANGED << otherThanRM, rmSpaces, rmDisk, rmSaved >>

NextRM == RMAppend \/ RMSave \/ RMLoad \/ RMNewRun

(* Runs of the test on a ReducedMesh *)
SpecRM == InitRM /\ [][NextRM]_vars

-----------------------------------------------------------------------------
(* SCMDecoratedReductionMethod_Class, scm_decorated_reduction_method.py:   *)
(* the calls a user makes on one object, one after the other. The methods  *)
(* of the base class and of SCM_reduction are taken to return.            *)

MaxSCMCalls == 2

(* **kwargs of a setter: without "SCM", or with "SCM" and its value *)
SetterKwargs ==
    { [ names |-> { }, SCM |-> KwOther ] } \cup
    { [ names |-> { "SCM" }, SCM |-> v ] :
        v \in { KwInt(n) : n \in 1 .. MaxNmax } \cup { KwOther } }

(* **kwargs of error_analysis *)
ErrorAnalysisKwargs == SUBSET { "with_respect_to", "N_SCM" }

InitSCM ==
    /\ OfflineIdle
    /\ GSIdle
    /\ EAIdle
    /\ RMIdle
    /\ FSIdle
    /\ SVIdle
    /\ scmPc = "ready"
    /\ scmCall = NoCall
    /\ scmBase = NoSettings
    /\ scmSub = NoSettings
    /\ scmMu \in Mus
    /\ scmMuAtCall = NoneMu
    /\ bak_first_mu = NoneMu
    /\ scmMuAfterSub = NoneMu
    /\ scmFirstMu = NoneMu
    /\ scmTrace = << >>
    /\ scmErr = "none"
    /\ scmRet = << "none" >>
    /\ scmCalls = 0

scmOffline == << scmMu, scmMuAtCall, bak_first_mu, scmMuAfterSub, scmFirstMu >>

(* A variant that checks the keyword before it calls the base class *)
SCMSetNmaxChecksFirst ==
    /\ scmPc = "ready"
    /\ scmCalls < MaxSCMCalls
    /\ \E n \in 1 .. MaxNmax : \E kw \in SetterKwargs :
          /\ scmCall' = [ method |-> "set_Nmax", arg |-> n, kw |-> kw.names, SCM |-> kw.SCM ]
          /\ IF "SCM" \notin kw.names \/ kw.SCM[1] # "int"
             THEN /\ scmErr' = "AssertionError"
                  /\ scmTrace' = << >>
                  /\ UNCHANGED << scmBase, scmSub >>
             ELSE /\ scmErr' = "none"
                  /\ scmBase' = [scmBase EXCEPT !.Nmax = KwInt(n)]
                  /\ scmSub' = [scmSub EXCEPT !.Nmax = kw.SCM]
                  /\ scmTrace' = << << "base", "set_Nmax" >>, << "SCM", "set_Nmax" >> >>
    /\ scmRet' = << "none" >>
    /\ scmCalls' = scmCalls + 1
    /\ UNCHANGED << otherThanSCM, scmPc, scmOffline >>

(* set_Nmax(Nmax, **kwargs), lines 50-55 *)
SCMSetNmax ==
    /\ scmPc = "ready"
    /\ scmCalls < MaxSCMCalls
    /\ \E n \in 1 .. MaxNmax : \E kw \in SetterKwargs :
          /\ scmCall' = [ method |-> "set_Nmax", arg |-> n, kw |-> kw.names, SCM |-> kw.SCM ]
          /\ scmBase' = [scmBase EXCEPT !.Nmax = KwInt(n)]
          /\ IF "SCM" \notin kw.names \/ kw.SCM[1] # "int"
             THEN /\ scmErr' = "AssertionError"
                  /\ scmSub' = scmSub
                  /\ scmTrace' = << << "base", "set_Nmax" >> >>
             ELSE /\ scmErr' = "none"
                  /\ scmSub' = [scmSub EXCEPT !.Nmax = kw.SCM]
                  /\ scmTrace' = << << "base", "set_Nmax" >>, << "SCM", "set_Nmax" >> >>
    /\ scmRet' = << "none" >>
    /\ scmCalls' = scmCalls + 1
    /\ UNCHANGED << otherThanSCM, scmPc, scmOffline >>

(* A variant that sets the training set of SCM_reduction first *)
SCMSetXiTrainSubFirst ==
    /\ scmPc = "ready"
    /\ scmCalls < MaxSCMCalls
    /\ \E n \in 1 .. MaxTrain : \E kw \in SetterKwargs : \E b \in BOOLEAN, b_SCM \in BOOLEAN :
          /\ scmCall' = [ method |-> "set_xi_train", arg |-> n, kw |-> kw.names,
                          SCM |-> kw.SCM ]
          /\ IF "SCM" \notin kw.names
             THEN /\ scmErr' = "AssertionError"
                  /\ UNCHANGED << scmBase, scmSub >>
                  /\ scmTrace' = << >>
                  /\ scmRet' = << "none" >>
             ELSE /\ scmErr' = "none"
                  /\ scmSub' = [scmSub EXCEPT !.ntrain = kw.SCM]
                  /\ scmBase' = [scmBase EXCEPT !.ntrain = KwInt(n)]
                  /\ scmTrace' = << << "SCM", "set_xi_train" >>, << "base", "set_xi_train" >> >>
                  /\ scmRet' = << "bool", b /\ b_SCM >>
    /\ scmCalls' = scmCalls + 1
    /\ UNCHANGED << otherThanSCM, scmPc, scmOffline >>

(* set_xi_train(ntrain, enable_import, sampling, **kwargs), lines 60-67;  *)
(* b and b_SCM are import_successful and import_successful_SCM            *)
SCMSetXiTrain ==
    /\ scmPc = "ready"
    /\ scmCalls < MaxSCMCalls
    /\ \E n \in 1 .. MaxTrain : \E kw \in SetterKwargs : \E b \in BOOLEAN, b_SCM \in BOOLEAN :
          /\ scmCall' = [ method |-> "set_xi_train", arg |-> n, kw |-> kw.names,
                          SCM |-> kw.SCM ]
          /\ scmBase' = [scmBase EXCEPT !.ntrain = KwInt(n)]
          /\ IF "SCM" \notin kw.names
             THEN /\ scmErr' = "AssertionError"
                  /\ scmSub' = scmSub
                  /\ scmTrace' = << << "base", "set_xi_train" >> >>
                  /\ scmRet' = << "none" >>
             ELSE /\ scmErr' = "none"
                  /\ scmSub' = [scmSub EXCEPT !.ntrain = kw.SCM]
                  /\ scmTrace' = << << "base", "set_xi_train" >>, << "SCM", "set_xi_train" >> >>
                  /\ scmRet' = << "bool", b /\ b_SCM >>
    /\ scmCalls' = scmCalls + 1
    /\ UNCHANGED << otherThanSCM, scmPc, scmOffline >>

(* set_xi_test(ntest, enable_import, sampling, **kwargs), lines 71-78 *)
SCMSetXiTest ==
    /\ scmPc = "ready"
    /\ scmCalls < MaxSCMCalls
    /\ \E n \in 1 .. MaxTest : \E kw \in SetterKwargs : \E b \in BOOLEAN, b_SCM \in BOOLEAN :
          /\ scmCall' = [ method |-> "set_xi_test", arg |-> n, kw |-> kw.names,
                          SCM |-> kw.SCM ]
          /\ scmBase' = [scmBase EXCEPT !.ntest = KwInt(n)]
          /\ IF "SCM" \notin kw.names
             THEN /\ scmErr' = "AssertionError"
                  /\ scmSub' = scmSub
                  /\ scmTrace' = << << "base", "set_xi_test" >> >>
                  /\ scmRet' = << "none" >>
             ELSE /\ scmErr' = "none"
                  /\ scmSub' = [scmSub EXCEPT !.ntest = kw.SCM]
                  /\ scmTrace' = << << "base", "set_xi_test" >>, << "SCM", "set_xi_test" >> >>
                  /\ scmRet' = << "bool", b /\ b_SCM >>
    /\ scmCalls' = scmCalls + 1
    /\ UNCHANGED << otherThanSCM, scmPc, scmOffline >>

scmSettings == << scmBase, scmSub >>

(* offline(), line 91: bak_first_mu = tuple(list(self.truth_problem.mu)),  *)
(* a copy of the current parameter                                        *)
SCMOfflineCall ==
    /\ scmPc = "ready"
    /\ scmCalls < MaxSCMCalls
    /\ scmCall' = [ method |-> "offline", arg |-> 0, kw |-> { }, SCM |-> KwOther ]
    /\ bak_first_mu' = scmMu
    /\ scmMuAtCall' = scmMu
    /\ scmMuAfterSub' = NoneMu
    /\ scmFirstMu' = NoneMu
    /\ scmTrace' = << >>
    /\ scmErr' = "none"
    /\ scmRet' = << "none" >>
    /\ scmPc' = "off_sub"
    /\ UNCHANGED << otherThanSCM, scmSettings, scmMu, scmCalls >>

(* self.SCM_reduction.offline(), line 92: its greedy leaves the truth     *)
(* problem at any parameter                                               *)
SCMOfflineSub ==
    /\ scmPc = "off_sub"
    /\ \E m \in Mus : scmMu' = m /\ scmMuAfterSub' = m
    /\ scmTrace' = Append(scmTrace, << "SCM", "offline" >>)
    /\ scmPc' = "off_restore"
    /\ UNCHANGED << otherThanSCM, scmCall, scmSettings, scmMuAtCall, bak_first_mu,
                    scmFirstMu, scmErr, scmRet, scmCalls >>

(* A variant that does not set the parameter *)
set_mu_ignored(current, new) == current

(* truth_problem.set_mu(mu) *)
set_mu(current, new) == new

(* self.truth_problem.set_mu(bak_first_mu), line 94 *)
SCMOfflineRestore ==
    /\ scmPc = "off_restore"
    /\ scmMu' = set_mu(scmMu, bak_first_mu)
    /\ scmPc' = "off_base"
    /\ UNCHANGED << otherThanSCM, scmCall, scmSettings, scmMuAtCall, bak_first_mu,
                    scmMuAfterSub, scmFirstMu, scmTrace, scmErr, scmRet, scmCalls >>

(* return DifferentialProblemReductionMethod_DerivedClass.offline(self),  *)
(* line 95. When the offline stage is needed the base offline() solves    *)
(* the truth problem at the current parameter first (lines 132-136 of     *)
(* elliptic_coercive_rb_reduction.py) and its greedy leaves the parameter *)
(* it selected (line 184).                                                *)
SCMOfflineBase ==
    /\ scmPc = "off_base"
    /\ \E need_to_do_offline_stage \in BOOLEAN : \E m \in Mus :
          IF need_to_do_offline_stage
          THEN /\ scmFirstMu' = scmMu
               /\ scmMu' = m
          ELSE /\ scmFirstMu' = NoneMu
               /\ scmMu' = scmMu
    /\ scmTrace' = Append(scmTrace, << "base", "offline" >>)
    /\ scmRet' = << "reduced_problem" >>
    /\ scmCalls' = scmCalls + 1
    /\ scmPc' = "ready"
    /\ UNCHANGED << otherThanSCM, scmCall, scmSettings, scmMuAtCall, bak_first_mu,
                    scmMuAfterSub, scmErr >>

(* A variant with "or" in place of "and" *)
RunsSCMErrorAnalysisEither(kwargs) ==
    "with_respect_to" \notin kwargs \/ "N_SCM" \notin kwargs

(* The condition of lines 109-116 *)
RunsSCMErrorAnalysis(kwargs) ==
    "with_respect_to" \notin kwargs /\ "N_SCM" \notin kwargs

(* error_analysis(N, **kwargs), lines 107-116 *)
SCMErrorAnalysisCall ==
    /\ scmPc = "ready"
    /\ scmCalls < MaxSCMCalls
    /\ \E n \in { NoneN } \cup (1 .. MaxNmax) : \E kwargs \in ErrorAnalysisKwargs :
          /\ scmCall' = [ method |-> "error_analysis", arg |-> n, kw |-> kwargs,
                          SCM |-> KwOther ]
          /\ scmPc' = IF RunsSCMErrorAnalysis(kwargs) THEN "ea_sub" ELSE "ea_base"
    /\ scmTrace' = << >>
    /\ scmErr' = "none"
    /\ scmRet' = << "none" >>
    /\ UNCHANGED << otherThanSCM, scmSettings, scmOffline, scmCalls >>

(* self.SCM_reduction.error_analysis(N), line 117 *)
SCMErrorAnalysisSub ==
    /\ scmPc = "ea_sub"
    /\ scmTrace' = Append(scmTrace, << "SCM", "error_analysis" >>)
    /\ scmPc' = "ea_base"
    /\ UNCHANGED << otherThanSCM, scmCall, scmSettings, scmOffline, scmErr, scmRet,
                    scmCalls >>

(* DifferentialProblemReductionMethod_DerivedClass.error_analysis(self,   *)
(* N, **kwargs), line 119; it sets the parameter to each one of the test  *)
(* set (line 214 of elliptic_coercive_rb_reduction.py)                    *)
SCMErrorAnalysisBase ==
    /\ scmPc = "ea_base"
    /\ scmTrace' = Append(scmTrace, << "base", "error_analysis" >>)
    /\ \E m \in Mus : scmMu' = m
    /\ scmCalls' = scmCalls + 1
    /\ scmPc' = "ready"
    /\ UNCHANGED << otherThanSCM, scmCall, scmSettings, scmMuAtCall, bak_first_mu,
                    scmMuAfterSub, scmFirstMu, scmErr, scmRet >>

NextSCM ==
    \/ SCMSetNmax
    \/ SCMSetXiTrain
    \/ SCMSetXiTest
    \/ SCMOfflineCall
    \/ SCMOfflineSub
    \/ SCMOfflineRestore
    \/ SCMOfflineBase
    \/ SCMErrorAnalysisCall
    \/ SCMErrorAnalysisSub
    \/ SCMErrorAnalysisBase

(* The calls made on one SCM-decorated reduction method *)
SpecSCM == InitSCM /\ [][NextSCM]_vars

(***************************************************************************)
(* FunctionSpace with string components                                    *)
(* (backends/fenics/wrapping/function_space.py).  A component is a name,   *)
(* a list of components or a tuple of components, written here as          *)
(* << "str", name >>, << "list", seq >> and << "tuple", seq >>.  An index  *)
(* is << "int", i >>, << "tuple", path >> or, while the map is built,      *)
(* << "list", path >>; None is << "none", 0 >>.  The dictionary            *)
(* _component_to_index is the set of its (key, value) pairs.               *)
(***************************************************************************)
MaxWidth == 2
MaxDepth == 2
Names == { "u", "p", "s" }
UnknownName == "q"
None == << "none", 0 >>

RECURSIVE NamesOf(_)
NamesOf(c) ==
    IF c[1] = "str"
    THEN { c[2] }
    ELSE UNION { NamesOf(c[2][k]) : k \in 1 .. Len(c[2]) }

(* Sequences of 1 .. n components out of S with no name twice *)
RECURSIVE ComponentSeqsUpTo(_, _)
ComponentSeqsUpTo(S, n) ==
    IF n = 1
    THEN { << c >> : c \in S }
    ELSE LET shorter == ComponentSeqsUpTo(S, n - 1)
         IN  shorter
             \cup UNION { { Append(s, c) :
                              c \in { d \in S : NamesOf(d) \cap NamesOf(<< "list", s >>) = { } } }
                          : s \in shorter }

ComponentSeqs(S) == ComponentSeqsUpTo(S, MaxWidth)

RECURSIVE Components(_)
Components(depth) ==
    IF depth = 0
    THEN { << "str", n >> : n \in Names }
    ELSE LET inner == Components(depth - 1)
         IN  inner
             \cup { << "list", s >> : s \in ComponentSeqs(inner) }
             \cup { << "tuple", s >> : s \in ComponentSeqs(inner) }

(* The values of the components keyword argument: a list of components,   *)
(* nested depth deep at most                                               *)
ComponentLists(depth) == ComponentSeqs(Components(depth - 1))

Paths == UNION { [ 1 .. n -> 0 .. (MaxWidth - 1) ] : n \in 1 .. MaxDepth }

(* The arguments sub and extract_sub_space are called with *)
FSArgs ==
    { << "str", n >> : n \in Names \cup { UnknownName } }
    \cup { << "int", i >> : i \in 0 .. (MaxWidth - 1) }
    \cup { << "tuple", p >> : p \in Paths }
    \cup { None }

(* component_to_index[key] = value *)
DictPut(dict, key, value) ==
    { e \in dict : e[1] # key } \cup { << key, value >> }

DictKeys(dict) == { e[1] : e \in dict }

DictGet(dict, key) == (CHOOSE e \in dict : e[1] = key)[2]

RECURSIVE init_component_to_index__recursive(_, _, _)
RECURSIVE init_recursive_loop(_, _, _, _)

(* The loops of lines 108-119 over the first k members of c *)
init_recursive_loop(c, dict, index, k) ==
    IF k = 0
    THEN dict
    ELSE LET before == init_recursive_loop(c, dict, index, k - 1)
             subindex == k - 1
             full_index ==
                 << "list",
                    (IF index[1] = "int" THEN << index[2] >> ELSE index[2])
                        \o << subindex >> >>
         IN  IF c[1] = "list"
             THEN init_component_to_index__recursive(c[2][k], before, index)
             ELSE init_component_to_index__recursive(c[2][k], before, full_index)

init_component_to_index__lists_as_tuples(c, dict, index) ==
    IF c[1] = "str"
    THEN IF index[1] = "list"
         THEN DictPut(dict, c[2], << "tuple", index[2] >>)
         ELSE DictPut(dict, c[2], index)
    ELSE init_recursive_loop(<< "tuple", c[2] >>, dict, index, Len(c[2]))
init_component_to_index__recursive(c, dict, index) ==
    IF c[1] = "str"
    THEN IF index[1] = "list"
         THEN DictPut(dict, c[2], << "tuple", index[2] >>)
         ELSE DictPut(dict, c[2], index)
    ELSE init_recursive_loop(c, dict, index, Len(c[2]))

RECURSIVE init_component_to_index_loop(_, _)
init_component_to_index_loop(comps, k) ==
    IF k = 0
    THEN { }
    ELSE init_component_to_index__recursive(
             comps[k], init_component_to_index_loop(comps, k - 1), << "int", k - 1 >>)

init_component_to_index(comps) ==
    init_component_to_index_loop(comps, Len(comps))

convert_component_to_int_unchanged(dict, i) == i
convert_component_to_int(dict, i) ==
    IF i[1] = "str" THEN DictGet(dict, i[2]) ELSE i

(* A name the dictionary does not hold raises KeyError *)
KnownArg(dict, i) == i[1] = "str" => i[2] \in DictKeys(dict)

(* The map _init_component_to_index({i: None}, output) gives the output *)
OutputMap(i) == IF i[1] = "str" THEN { << i[2], None >> } ELSE { }

custom_extract_sub_space(dict, i) ==
    IF ~KnownArg(dict, i)
    THEN [ result |-> "KeyError", call |-> NoArg, map |-> { } ]
    ELSE [ result |-> "output",
           call |-> << "extract_sub_space", convert_component_to_int(dict, i) >>,
           map |-> OutputMap(i) ]

custom_sub(dict, i) ==
    IF i = None
    THEN [ result |-> "AssertionError", call |-> NoArg, map |-> { } ]
    ELSE IF ~KnownArg(dict, i)
    THEN [ result |-> "KeyError", call |-> NoArg, map |-> { } ]
    ELSE LET i_int == convert_component_to_int(dict, i)
         IN  IF i_int = None
             THEN [ result |-> "self", call |-> NoArg, map |-> dict ]
             ELSE IF i_int[1] = "int"
             THEN [ result |-> "output", call |-> << "sub", i_int >>,
                    map |-> OutputMap(i) ]
             ELSE [ result |-> "output",
                    call |-> custom_extract_sub_space(dict, i_int).call,
                    map |-> OutputMap(i) ]

InitFS ==
    /\ OfflineIdle
    /\ GSIdle
    /\ EAIdle
    /\ RMIdle
    /\ SCMIdle
    /\ SVIdle
    /\ fsPc = "new"
    /\ components \in ComponentLists(MaxDepth)
    /\ component_to_index = { }
    /\ fsArg = NoArg
    /\ fsOut = NoOut

(* _enable_string_components: the map is built from the components *)
FSEnableStringComponents ==
    /\ fsPc = "new"
    /\ fsPc' = "ready"
    /\ component_to_index' = init_component_to_index(components)
    /\ UNCHANGED << components, fsArg, fsOut >>
    /\ UNCHANGED otherThanFS

(* function_space.sub(i).  A call leaves the function space as it is, so  *)
(* one call on each function space shows every call on it.                 *)
FSSub ==
    /\ fsPc = "ready"
    /\ fsPc' = "called"
    /\ \E i \in FSArgs :
        /\ fsArg' = << "sub", i >>
        /\ fsOut' = custom_sub(component_to_index, i)
    /\ UNCHANGED << components, component_to_index >>
    /\ UNCHANGED otherThanFS

(* function_space.extract_sub_space(i) *)
FSExtractSubSpace ==
    /\ fsPc = "ready"
    /\ fsPc' = "called"
    /\ \E i \in FSArgs :
        /\ fsArg' = << "extract_sub_space", i >>
        /\ fsOut' = custom_extract_sub_space(component_to_index, i)
    /\ UNCHANGED << components, component_to_index >>
    /\ UNCHANGED otherThanFS

NextFS ==
    \/ FSEnableStringComponents
    \/ FSSub
    \/ FSExtractSubSpace

SpecFS == InitFS /\ [][NextFS]_vars

(***************************************************************************)
(* A save of the basis (Z.save, line 143 of offline) or of the reduced     *)
(* mesh (reduced_mesh.save, lines 75-76 of the test), record by record,    *)
(* and the process interrupted at any point of it.  The store is a         *)
(* directory holding the number of records and one file for each record;   *)
(* a save writes a temporary directory and renames it.                     *)
(***************************************************************************)
MaxRecords == 2
MaxSaves == 2
SVRecords == { "a", "b" }

(* The directory a save at name writes into *)
TempNameInPlace(name) == name
TempName(name) == "tmp"

(* The directory is created if it is not there and the count is written *)
write_count(dir, n) ==
    [ exists |-> TRUE, count |-> n, records |-> dir.records ]

(* The file of record k is written, over the one that was there *)
write_record(dir, k, record) ==
    [ dir EXCEPT !.records =
        IF k <= Len(dir.records)
        THEN [ dir.records EXCEPT ![k] = record ]
        ELSE Append(dir.records, record) ]

(* from takes the place of to in one step *)
rename(dirs, from, to) ==
    IF from = to
    THEN dirs
    ELSE [ dirs EXCEPT ![to] = dirs[from], ![from] = NoDirectory ]

(* The count is read, then that many records; a missing file is an error *)
load(dir) ==
    IF ~dir.exists \/ Len(dir.records) < dir.count
    THEN << "fail", << >> >>
    ELSE << "ok", SubSeq(dir.records, 1, dir.count) >>

InitSV ==
    /\ OfflineIdle
    /\ GSIdle
    /\ EAIdle
    /\ RMIdle
    /\ SCMIdle
    /\ FSIdle
    /\ svPc = "idle"
    /\ svStore \in { "basis", "reduced_mesh" }
    /\ svMem = << >>
    /\ svDisk = [ name \in { "final", "tmp" } |-> NoDirectory ]
    /\ svNext = 0
    /\ svSaved = { }
    /\ svLoaded = NothingLoaded
    /\ svSaves = 0

(* Z.enrich(snapshot), reduced_mesh.append(dofs): one more record *)
SVAppend ==
    /\ svPc = "idle"
    /\ Len(svMem) < MaxRecords
    /\ \E record \in SVRecords : svMem' = Append(svMem, record)
    /\ UNCHANGED << svPc, svStore, svDisk, svNext, svSaved, svLoaded, svSaves >>
    /\ UNCHANGED otherThanSV

(* save(directory, name) starts *)
SVSaveBegin ==
    /\ svPc = "idle"
    /\ svSaves < MaxSaves
    /\ svSaves' = svSaves + 1
    /\ svDisk' = [ svDisk EXCEPT ![TempName("final")] = write_count(@, Len(svMem)) ]
    /\ svNext' = 1
    /\ svPc' = "writing"
    /\ UNCHANGED << svStore, svMem, svSaved, svLoaded >>
    /\ UNCHANGED otherThanSV

SVSaveWrite ==
    /\ svPc = "writing"
    /\ svNext <= Len(svMem)
    /\ svDisk' = [ svDisk EXCEPT ![TempName("final")] =
                       write_record(@, svNext, svMem[svNext]) ]
    /\ svNext' = svNext + 1
    /\ UNCHANGED << svPc, svStore, svMem, svSaved, svLoaded, svSaves >>
    /\ UNCHANGED otherThanSV

(* The save is completed *)
SVSaveRename ==
    /\ svPc = "writing"
    /\ svNext > Len(svMem)
    /\ svDisk' = rename(svDisk, TempName("final"), "final")
    /\ svSaved' = svSaved \cup { svMem }
    /\ svNext' = 0
    /\ svPc' = "idle"
    /\ UNCHANGED << svStore, svMem, svLoaded, svSaves >>
    /\ UNCHANGED otherThanSV

(* The process is interrupted, at any point *)
SVInterrupt ==
    /\ svPc \in { "idle", "writing" }
    /\ svPc' = "killed"
    /\ UNCHANGED << svStore, svMem, svDisk, svNext, svSaved, svLoaded, svSaves >>
    /\ UNCHANGED otherThanSV

(* A new process: its objects are empty, the disk is kept *)
SVRestart ==
    /\ svPc = "killed"
    /\ svPc' = "idle"
    /\ svMem' = << >>
    /\ svNext' = 0
    /\ svLoaded' = NothingLoaded
    /\ UNCHANGED << svStore, svDisk, svSaved, svSaves >>
    /\ UNCHANGED otherThanSV

(* load(directory, name) *)
SVLoad ==
    /\ svPc = "idle"
    /\ svLoaded' = load(svDisk["final"])
    /\ UNCHANGED << svPc, svStore, svMem, svDisk, svNext, svSaved, svSaves >>
    /\ UNCHANGED otherThanSV

NextSV ==
    \/ SVAppend
    \/ SVSaveBegin
    \/ SVSaveWrite
    \/ SVSaveRename
    \/ SVInterrupt
    \/ SVRestart
    \/ SVLoad

SpecSV == InitSV /\ [][NextSV]_vars

-----------------------------------------------------------------------------
(* Properties *)

Range(s) == { s[i] : i \in 1 .. Len(s) }
SeqMax(s) == CHOOSE x \in Range(s) : \A y \in Range(s) : y <= x

StepOrder == << "truth_solve", "enrich", "gram_schmidt", "build_reduced_operators",
                "reduced_solve", "build_error_estimation_matrices", "greedy",
                "greedy_done" >>
IsOrderedStep(e) == e[2] \in Range(StepOrder)
IsTruthSolve(e) == e[2] = "truth_solve"
IsGreedy(e) == e[2] = "greedy"

(* C1: in every iteration of offline() the steps are started in the order *)
(* truth solve, enrichment, Gram-Schmidt, reduced operators, reduced      *)
(* solve, error-estimation matrices, greedy; and the truth solve of       *)
(* iteration k+1 starts only after the greedy step of iteration k ended.  *)
C1_StepOrder ==
    LET P == SelectSeq(log, IsOrderedStep)
    IN  /\ \A i \in 1 .. Len(P) :
             P[i] = << (i - 1) \div Len(StepOrder),
                       StepOrder[((i - 1) % Len(StepOrder)) + 1] >>
        /\ (pc = "build_err" => built.ops = N /\ built.sol = N)
        /\ (pc = "greedy" => built.err = N)

C1_Witness == pc = "greedy" /\ run = 1 /\ Len(log) > Len(StepOrder)

(* C2: N never decreases, and when an iteration completes N is one more   *)
(* than at the end of the iteration before and equals the length of Z.    *)
C2_NGrowsByOne ==
    [][ /\ N' >= N
        /\ (run' = run + 1 => (N' = chk.N + 1 /\ N' = Len(Z'))) ]_vars

C2_Witness == pc = "loop" /\ run = 2 /\ N = 2 /\ Len(Z) = 2

(* C3: a call of offline() that is needed ends, and it ends with N = Nmax *)
(* unless a step fails: while it runs a step is always possible, every    *)
(* step moves it forward in a bounded order of its positions, and when it *)
(* returns Nmax iterations were made and N = Nmax.                        *)
PcOrder == << "loop", "truth", "enrich", "gs", "save", "incr", "build_ops",
              "rsolve", "build_err", "greedy", "scan", "save_delta", "save_mu" >>
PcIndex(p) == CHOOSE i \in 1 .. Len(PcOrder) : PcOrder[i] = p
Rank(r, p, g) ==
    (r * Len(PcOrder) + PcIndex(p)) * (Len(xi_train) + 1) + g
C3_Terminates ==
    /\ []( /\ (pc \in Running => ENABLED OfflineStep)
           /\ (pc \in Range(PcOrder) =>
                  Rank(run, pc, gi) <= Rank(Nmax, "loop", 0))
           /\ ((pc = "done" /\ need) => (N = Nmax /\ run = Nmax)) )
    /\ [][ (pc \in Range(PcOrder) /\ pc' \in Range(PcOrder)) =>
              Rank(run', pc', gi') > Rank(run, pc, gi) ]_vars

C3_Witness == pc = "done" /\ need /\ N = Nmax /\ Nmax > 1

(* C4: when _init_offline finds a complete basis, offline() returns at    *)
(* once: no step is run, N, the basis and the persisted data are what     *)
(* they were, and the call returns what the call before it returned.      *)
C4_EarlyReturn ==
    (pc = "done" /\ ~need) =>
        /\ log = << >>
        /\ truthCalls = 0
        /\ N = entry.N /\ Z = entry.Z
        /\ N = Nmax /\ Z = diskZ
        /\ Persisted = entry.disk
        /\ (prev.calls > 0 => (N = prev.N /\ Z = prev.Z))

C4_Witness == pc = "done" /\ ~need /\ prev.calls > 0 /\ Len(Z) = Nmax

(* C5: a run started again after an interruption that left k < Nmax       *)
(* persisted iterations performs only the remaining Nmax - k iterations.  *)
PersistedIterations == Len(entry.disk.muFile)
TruthSolvesInCall == Len(SelectSeq(log, IsTruthSolve))
C5_ResumesFromPersistedN ==
    ( /\ lastExit = "killed" /\ need /\ pc = "done"
      /\ PersistedIterations < Nmax
      /\ \A i \in 1 .. Len(Z) : ~IsNaN(Z[i]) ) =>
        TruthSolvesInCall = Nmax - PersistedIterations

(* C6: greedy() scans xi_train in order; the parameter it selects has a   *)
(* bound equal to the maximum of the bounds of the scan, and that maximum *)
(* is the delta_max it records.                                           *)
C6_GreedySelectsMax ==
    /\ (pc = "scan" => (Len(deltas) = gi /\ (gi > 0 => mu = xi_train[gi])))
    /\ (pc \in { "save_delta", "save_mu" } =>
            /\ Len(deltas) = Len(xi_train)
            /\ delta_max = SeqMax(deltas)
            /\ mu = munew
            /\ \E i \in 1 .. Len(xi_train) :
                   xi_train[i] = munew /\ deltas[i] = SeqMax(deltas))
    /\ (pc = "save_mu" => deltaFile[Len(deltaFile)] = << N, SeqMax(deltas) >>)

C6_Witness ==
    pc = "save_mu" /\ Len(xi_train) = 3 /\ deltas[1] < deltas[2] /\ deltas[3] < deltas[2]

(* C7: a candidate with a smaller bound never replaces the incumbent; on  *)
(* a tie the random draw decides, and both outcomes are possible.         *)
TieStep(kind) == GreedyScan /\ picks' = Append(picks, kind)
C7_TieBreak ==
    /\ [][ (pc = "scan" /\ gi' = gi + 1) =>
             LET d == deltas'[gi']
                 m == xi_train[gi']
             IN  /\ (d < delta_max => (munew' = munew /\ delta_max' = delta_max))
                 /\ ((d = delta_max /\ picks'[gi'] = "tie_replaced") =>
                        (munew' = m /\ delta_max' = d))
                 /\ ((d = delta_max /\ picks'[gi'] = "tie_kept") =>
                        (munew' = munew /\ delta_max' = delta_max)) ]_vars
    /\ [](( pc = "scan" /\ gi < Len(xi_train) /\ delta_max >= 0) =>
             (ENABLED TieStep("tie_replaced") /\ ENABLED TieStep("tie_kept")))

C7_Witness ==
    /\ pc = "scan"
    /\ \E i, j \in 1 .. Len(picks) :
          /\ picks[i] = "tie_replaced" /\ picks[j] = "tie_kept"
          /\ i < j /\ munew = xi_train[i]

(* C8: with an empty training set greedy() fails; it writes no record     *)
(* and leaves mu as it was.                                               *)
C8_EmptyTrainingSetFails ==
    xi_train = << >> =>
        /\ mu = mu0
        /\ deltaFile = << >> /\ muFile = << >>
        /\ pc \notin { "save_delta", "save_mu", "done" }
        /\ ((pc = "failed" /\ SelectSeq(log, IsGreedy) # << >>) => err = "AssertionError")
        /\ ((pc \notin { "scan", "failed" }) => SelectSeq(log, IsGreedy) = << >>)

C8_Witness ==
    xi_train = << >> /\ pc = "failed" /\ err = "AssertionError" /\ N = 1

(* C9: orthogonalization of a snapshot that depends linearly on the basis *)
(* does not return: no vector that is not finite is in the basis when it  *)
(* is saved, nor in the persisted basis.                                  *)
C9_DegeneracyAborts ==
    /\ (pc = "save" => ~IsNaN(Z[Len(Z)]))
    /\ \A i \in 1 .. Len(diskZ) : ~IsNaN(diskZ[i])

(* C10: when the truth solve fails, offline() ends with that failure      *)
(* after a single call of the solver, and N, the basis and the persisted  *)
(* data are as the last completed iteration left them.                    *)
C10_TruthFailure ==
    (pc = "failed" /\ err = "SolverDivergence") =>
        /\ truthCalls = 1
        /\ N = chk.N /\ Z = chk.Z
        /\ Persisted = chk.disk
        /\ log[Len(log)] = << run, "truth_solve" >>

C10_Witness ==
    pc = "failed" /\ err = "SolverDivergence" /\ run = 1 /\ Len(diskZ) = 1

(* C11: the greedy trace is only appended to: every iteration, the last   *)
(* one too, adds one record "N delta_max" and one record "mu_greedy",     *)
(* each on a line of its own; records written before are never changed    *)
(* or removed, and the records are in the order of increasing N.          *)
IsPrefix(s, t) == Len(s) <= Len(t) /\ SubSeq(t, 1, Len(s)) = s
FirstNewline(text) ==
    IF \E k \in 1 .. Len(text) : text[k] = Newline
    THEN CHOOSE k \in 1 .. Len(text) :
             text[k] = Newline /\ \A j \in 1 .. (k - 1) : text[j] # Newline
    ELSE 0
RECURSIVE Lines(_)
Lines(text) ==
    IF text = << >> THEN << >>
    ELSE LET k == FirstNewline(text)
         IN  IF k = 0 THEN << text >>
             ELSE << SubSeq(text, 1, k - 1) >> \o Lines(SubSeq(text, k + 1, Len(text)))
C11_AppendOnlyTrace ==
    /\ []( /\ ((\A i \in 1 .. Len(Z) : ~IsNaN(Z[i])) =>
                  /\ Lines(delta_max_txt) =
                         [ i \in 1 .. Len(deltaFile) |-> str_delta_max(deltaFile[i]) ]
                  /\ Lines(mu_greedy_txt) =
                         [ i \in 1 .. Len(muFile) |-> str_mu_greedy(muFile[i]) ])
           /\ \A i, j \in 1 .. Len(deltaFile) : i < j => deltaFile[i][1] < deltaFile[j][1]
           /\ (pc = "loop" => ( /\ Len(deltaFile) = Len(entry.disk.deltaFile) + run
                                /\ Len(muFile) = Len(entry.disk.muFile) + run )) )
    /\ [][ /\ IsPrefix(delta_max_txt, delta_max_txt')
           /\ IsPrefix(mu_greedy_txt, mu_greedy_txt') ]_vars

(* The parts of C11 that do not depend on the line ends *)
C11_AppendOnlyRecords ==
    /\ []( /\ \A i, j \in 1 .. Len(deltaFile) : i < j => deltaFile[i][1] < deltaFile[j][1]
           /\ (pc = "loop" => ( /\ Len(deltaFile) = Len(entry.disk.deltaFile) + run
                                /\ Len(muFile) = Len(entry.disk.muFile) + run )) )
    /\ [][ /\ IsPrefix(delta_max_txt, delta_max_txt')
           /\ IsPrefix(mu_greedy_txt, mu_greedy_txt') ]_vars

(* C12: apply(Z) on n vectors makes exactly n - 1 projection steps of the *)
(* last vector, against Z[0], ..., Z[n-2] in that order, and then exactly *)
(* one normalization; for n = 1 it only normalizes.                       *)
ProjectionsDone(k) == [ j \in 1 .. k |-> << "project", j - 1, gsIn[j] >> ]
C13_InPlace ==
    /\ (gsPc # "idle" =>
           /\ Len(gsZ) = Len(gsIn)
           /\ \A j \in 1 .. (Len(gsIn) - 1) : gsZ[j] = gsIn[j])
    /\ (gsPc = "returned" =>
           /\ gsZ = GSapply(gsIn)
           /\ gsZ[Len(gsZ)] = Divided(Projected(gsIn, Len(gsIn) - 1), ResidualNorm(gsIn)))

C13_Witness ==
    /\ gsPc = "returned" /\ Len(gsIn) = 2
    /\ ~IsNaN(gsZ[2]) /\ gsZ[2] # gsIn[2] /\ gsIn[1] # gsIn[2]

(* C14: after every enrichment that succeeded the basis is orthonormal    *)
(* under X: the Gram matrix of the basis is the identity, within the      *)
(* tolerance.                                                             *)
GramTol == 2
Delta(i, j) == IF i = j THEN SCALE ELSE 0
Abs(x) == IF x < 0 THEN 0 - x ELSE x
IsOrthonormal(Zs) ==
    \A i, j \in 1 .. Len(Zs) :
        /\ ~IsNaN(Zs[i]) /\ ~IsNaN(Zs[j])
        /\ Abs(Inner(Zs[i], Zs[j]) - Delta(i, j)) <= GramTol
C14_Orthonormal == (pc \notin { "gs", "failed" }) => IsOrthonormal(Z)

(* C14 for the bases into which no dependent snapshot was put *)
C14_OrthonormalUnlessDegenerate ==
    ((pc \notin { "gs", "failed" }) /\ \A i \in 1 .. Len(Z) : ~IsNaN(Z[i])) => IsOrthonormal(Z)

(* C15: apply(Z) on an empty basis fails at once, before any step, and    *)
(* changes nothing.                                                       *)
C15_EmptyBasisFails ==
    (gsIn = << >> /\ gsPc \notin { "idle", "call" }) =>
        /\ gsPc = "raised" /\ gsErr = "IndexError"
        /\ gsZ = << >> /\ gsTrace = << >>
        /\ gs_i = 0 /\ ~gs_alias

C15_Witness == gsIn = << >> /\ gsZ = << >> /\ gsPc = "raised" /\ gsErr = "IndexError"

(* C16: in error_analysis, where the true error of an entry (n, mu) is    *)
(* zero the effectivity of that entry is an explicit marker of an         *)
(* undefined value, neither infinity nor nan, and the other entries of    *)
(* the batch are still evaluated.                                         *)
FUndefined == << "undefined", 0 >>
C16_UndefinedEffectivity ==
    /\ \A k \in 1 .. Len(eaTrace) :
          LET col == eaTrace[k][1] + 1
              row == eaTrace[k][2] + 1
          IN  /\ (error_u[row][col] = FNum(0) => effectivity_u[row][col] = FUndefined)
              /\ (error_s[row][col] = FNum(0) => effectivity_s[row][col] = FUndefined)
    /\ (eaPc = "done" => Len(eaTrace) = ea_N * Len(xi_test))

(* The part of C16 that holds: a zero error stops nothing *)
C16_BatchCompletes ==
    (eaPc \in { "stats_u", "stats_s", "done" }) => Len(eaTrace) = ea_N * Len(xi_test)

(* C17: error_analysis(N) evaluates error, bound and effectivity once for *)
(* every pair (mu in xi_test, n in 1 .. N), in the order of the test set  *)
(* and of increasing n, with the first n basis vectors only; the basis    *)
(* and N are left as they were; without the argument N is the current N.  *)
AllPairs(l, n) ==
    [ k \in 1 .. (l * n) |-> << (k - 1) \div n, (k - 1) % n, ((k - 1) % n) + 1 >> ]
C17_EvaluatesEveryPairOnce ==
    /\ eaZ = eaIn.Z /\ eaN = eaIn.N
    /\ (eaPc \notin { "idle", "call" } =>
           ea_N = IF argN = NoneN THEN eaIn.N ELSE argN)
    /\ (eaPc = "inner" =>
           /\ eaMu = xi_test[ea_run + 1]
           /\ eaTrace = SubSeq(AllPairs(Len(xi_test), ea_N), 1, ea_run * ea_N + ea_n))
    /\ (eaPc \in { "stats_u", "stats_s", "done", "failed" } =>
           /\ eaTrace = AllPairs(Len(xi_test), ea_N)
           /\ \A n \in 1 .. ea_N : \A r \in 1 .. Len(xi_test) :
                 /\ error_u[n][r] = compute_error(SubSeq(eaIn.Z, 1, n), n, xi_test[r])[1]
                 /\ effectivity_u[n][r] = FDiv(delta_u[n][r], error_u[n][r])
                 /\ effectivity_s[n][r] = FDiv(delta_s[n][r], error_s[n][r]))

C17_Witness ==
    /\ eaPc = "done" /\ argN = NoneN /\ ea_N = 2 /\ Len(xi_test) = 2
    /\ Len(eaTrace) = 4 /\ Len(eaZ) = 2

(* C18: appending a DOF tuple that was appended before is a no-op: the    *)
(* two lists have the length and content they had, and so has the         *)
(* accumulated cell set.                                                  *)
C18_AppendIdempotent ==
    [][ ( /\ rmAppends' = rmAppends + 1
          /\ \E i \in 1 .. Len(dofs_list) : dofs_list[i] = rmOp'[2] ) =>
            /\ dofs_list' = dofs_list
            /\ reduced_dofs_list' = reduced_dofs_list
            /\ AccumulatedCells(rmMarked') = AccumulatedCells(rmMarked)
            /\ rmMarked' = rmMarked ]_vars

C18_Witness ==
    /\ rmOp[1] = "append" /\ rmOp[3]
    /\ Len(dofs_list) = 1 /\ rmAppends = 2 /\ rmOp[2] = dofs_list[1]
    /\ reduced_dofs_list = << ReducedPair(CellsTouching(dofs_list[1]), dofs_list[1]) >>

(* C19: after any appends and saves, load() on a new ReducedMesh gives    *)
(* the state of the last save: the same accumulated cell set and the same *)
(* two lists, in content and order, also when the number of partitions is *)
(* not the one of the save.                                               *)
C19_LoadGivesLastSave ==
    (rmOp[1] = "load" /\ rmOp[2]) =>
        /\ rmLoaded.exists
        /\ Len(rmLoaded.marked) = rmParts
        /\ \A p \in 1 .. rmParts : \A c \in rmLoaded.marked[p] : Owner(c, rmParts) = p
        /\ AccumulatedCells(rmLoaded.marked) = rmSaved.cells
        /\ rmLoaded.dofs = rmSaved.dofs
        /\ rmLoaded.reduced = rmSaved.reduced
        /\ rmLoaded.reduced = ReducedDofs(AccumulatedCells(rmLoaded.marked), rmLoaded.dofs)

C19_Witness ==
    /\ rmOp[1] = "load" /\ rmOp[2]
    /\ rmSaved.parts # rmParts /\ rmSaved.parts = 2
    /\ Len(rmLoaded.dofs) = 2 /\ rmSaved.cells = Cells

(* C20: the state of a ReducedMesh only grows: an append removes no cell  *)
(* of the accumulated set, the list of DOF tuples before it is a prefix   *)
(* of the list after it, and the two lists always have equal lengths.     *)
C20_OnlyGrows ==
    /\ [](Len(dofs_list) = Len(reduced_dofs_list))
    /\ [][ rmAppends' = rmAppends + 1 =>
             /\ AccumulatedCells(rmMarked) \subseteq AccumulatedCells(rmMarked')
             /\ Len(dofs_list) <= Len(dofs_list')
             /\ SubSeq(dofs_list', 1, Len(dofs_list)) = dofs_list ]_vars

C20_Witness ==
    /\ rmOp[1] = "append" /\ ~rmOp[3]
    /\ Len(dofs_list) = 2 /\ AccumulatedCells(rmMarked) = Cells
    /\ reduced_dofs_list[1] # ReducedPair(CellsTouching(dofs_list[1]), dofs_list[1])

(* C21: the k-th reduced DOF tuple addresses, on the reduced spaces, the  *)
(* operator entry that the k-th DOF tuple addresses on the full spaces:   *)
(* the assembled form read at the reduced DOFs equals the form read at    *)
(* the original DOFs, after every append for the ReducedMesh that is      *)
(* built and after every load for the one that was loaded.                *)
C21_SameOperatorEntries ==
    /\ rmOp[1] = "append" =>
         A_N_reduced_dofs(rmSpaces, AccumulatedCells(rmMarked), reduced_dofs_list)
           = A_dofs(rmSpaces, dofs_list)
    /\ (rmOp[1] = "load" /\ rmLoaded.exists) =>
         A_N_reduced_dofs(rmSpaces, AccumulatedCells(rmLoaded.marked), rmLoaded.reduced)
           = A_dofs(rmSpaces, rmLoaded.dofs)

(* Two tuples over V and U were appended, the second renumbered the       *)
(* first, and the mesh was loaded on another number of partitions         *)
C21_Witness ==
    /\ rmSpaces = << "V", "U" >>
    /\ rmOp[1] = "load"
    /\ rmLoaded.exists
    /\ rmLoaded.dofs = << << 4, 7 >>, << 1, 0 >> >>
    /\ rmLoaded.reduced # << ReducedPair(CellsTouching(<< 4, 7 >>), << 4, 7 >>),
                            ReducedPair(CellsTouching(<< 1, 0 >>), << 1, 0 >>) >>
    /\ rmSaved.parts # rmParts

ScmPos(who, method) == { i \in 1 .. Len(scmTrace) : scmTrace[i] = << who, method >> }

(* C22 as stated: in each of set_Nmax, set_xi_train, offline and          *)
(* error_analysis, the method of the SCM sub-reduction is executed before *)
(* the behaviour of the base reduction method.                            *)
C22_SubBeforeBase ==
    \A method \in { "set_Nmax", "set_xi_train", "offline", "error_analysis" } :
       \A i \in ScmPos("base", method) : \E j \in ScmPos("SCM", method) : j < i

(* C22, amended: offline and error_analysis execute the method of the SCM *)
(* sub-reduction (when they execute it) before the base behaviour, and    *)
(* offline always executes it; set_Nmax and set_xi_train execute the base *)
(* setter first and the setter of the SCM sub-reduction after it.         *)
C22_Order ==
    /\ \A method \in { "offline", "error_analysis" } :
          \A i \in ScmPos("base", method) : \A j \in ScmPos("SCM", method) : j < i
    /\ \A i \in ScmPos("base", "offline") : ScmPos("SCM", "offline") # { }
    /\ \A method \in { "set_Nmax", "set_xi_train" } :
          \A j \in ScmPos("SCM", method) : \E i \in ScmPos("base", method) : i < j

C22_Witness ==
    /\ scmCall.method = "set_xi_train"
    /\ scmErr = "none"
    /\ scmTrace = << << "base", "set_xi_train" >>, << "SCM", "set_xi_train" >> >>
    /\ scmBase.ntrain = KwInt(2)
    /\ scmSub.ntrain = KwInt(1)

(* C26: whatever parameter the SCM offline phase leaves in the truth      *)
(* problem, the base offline phase starts at the parameter the truth      *)
(* problem had when the decorated offline() was called, and its first     *)
(* truth solve is at that parameter.                                      *)
C26_BaseOfflineAtInitialMu ==
    /\ scmPc = "off_base" => scmMu = scmMuAtCall
    /\ scmFirstMu # NoneMu => scmFirstMu = scmMuAtCall

C26_Witness ==
    /\ scmCall.method = "offline"
    /\ scmPc = "ready"
    /\ scmMuAfterSub # NoneMu
    /\ scmMuAfterSub # scmMuAtCall
    /\ scmFirstMu = scmMuAtCall

(* C27: error_analysis(N, **kwargs) runs the error analysis of the SCM    *)
(* sub-reduction if and only if neither "with_respect_to" nor "N_SCM" is  *)
(* a keyword argument, and runs the base error analysis exactly once in   *)
(* every case, after the one of the SCM sub-reduction when that one runs. *)
C27_ErrorAnalysisRuns ==
    (scmCall.method = "error_analysis" /\ scmPc = "ready") =>
        scmTrace = IF scmCall.kw \cap { "with_respect_to", "N_SCM" } = { }
                   THEN << << "SCM", "error_analysis" >>, << "base", "error_analysis" >> >>
                   ELSE << << "base", "error_analysis" >> >>

C27_Witness ==
    /\ scmCall.method = "error_analysis"
    /\ scmPc = "ready"
    /\ scmCall.kw = { "N_SCM" }
    /\ scmTrace = << << "base", "error_analysis" >> >>

SetterField(method) ==
    CASE method = "set_Nmax" -> "Nmax"
      [] method = "set_xi_train" -> "ntrain"
      [] OTHER -> "ntest"

(* C28: a call of set_Nmax, set_xi_train or set_xi_test without the "SCM" *)
(* keyword fails on an assertion after the setter of the base class has   *)
(* taken effect: the base setting has the new value and the settings of   *)
(* the SCM sub-reduction are the ones before the call.                    *)
C28_SetterFailsAfterBase ==
    [][ ( /\ scmCalls' = scmCalls + 1
          /\ scmCall'.method \in { "set_Nmax", "set_xi_train", "set_xi_test" }
          /\ "SCM" \notin scmCall'.kw ) =>
            /\ scmErr' = "AssertionError"
            /\ scmBase'[SetterField(scmCall'.method)] = KwInt(scmCall'.arg)
            /\ scmSub' = scmSub ]_vars

C28_Witness ==
    /\ scmCall.method = "set_Nmax"
    /\ scmCall.kw = { }
    /\ scmErr = "AssertionError"
    /\ scmBase.Nmax = KwInt(2)
    /\ scmSub.Nmax = KwInt(1)

(* C25: the truth solve of iteration k+1 is made at the parameter that    *)
(* the greedy step of iteration k selected: greedy() sets mu to every     *)
(* training parameter while it scans, leaves mu at the selected one when  *)
(* it returns, and nothing changes mu before the next truth solve.        *)
C25_NextSolveAtSelectedMu ==
    [](/\ (pc = "scan" /\ gi > 0) => mu = xi_train[gi]
       /\ (pc \in { "save_delta", "save_mu" }) => mu = munew
       /\ (run >= 1 /\ pc \in { "loop", "truth", "enrich" }) =>
              (muFile # << >> /\ mu = muFile[Len(muFile)])
       /\ (run >= 1 /\ pc = "enrich") => snapshot = TruthSolution(muFile[Len(muFile)]))

C25_Witness ==
    /\ pc = "enrich"
    /\ run = 1
    /\ Len(xi_train) = 3
    /\ muFile = << xi_train[1] >>
    /\ mu0 # xi_train[1]
    /\ snapshot = TruthSolution(xi_train[1])

(* C29: in a run of offline() the basis is saved after its                *)
(* orthogonalization and before N is incremented, and the trace record of *)
(* an iteration is written at its end: the number of persisted basis      *)
(* vectors is N or N + 1, the number of trace records is N or N - 1 and   *)
(* never more than the number of persisted basis vectors.                 *)
C29_PersistedCounts ==
    [](/\ Len(diskZ) \in { N, N + 1 }
       /\ (Len(diskZ) = N + 1 <=> pc = "incr")
       /\ Len(deltaFile) \in { N - 1, N }
       /\ Len(muFile) \in { N - 1, N }
       /\ Len(muFile) <= Len(deltaFile)
       /\ Len(deltaFile) <= Len(diskZ)
       /\ \A i \in 1 .. Len(log) :
             /\ log[i][2] = "save" =>
                    (i > 1 /\ log[i - 1] = << log[i][1], "gram_schmidt" >>)
             /\ log[i][2] = "increment_N" =>
                    (i > 1 /\ log[i - 1] = << log[i][1], "save" >>))

C29_Witness ==
    /\ pc = "incr"
    /\ run = 1
    /\ Len(diskZ) = 2 /\ N = 1
    /\ Len(deltaFile) = 1 /\ Len(muFile) = 1

(* The places of the names of a component: a list leaves the place as it  *)
(* is, a tuple adds the position inside it                                 *)
RECURSIVE Occurrences(_, _)
Occurrences(c, path) ==
    IF c[1] = "str"
    THEN { << c[2], path >> }
    ELSE UNION { Occurrences(c[2][k],
                             IF c[1] = "tuple" THEN path \o << k - 1 >> ELSE path)
                 : k \in 1 .. Len(c[2]) }

ComponentOccurrences ==
    UNION { Occurrences(components[k], << k - 1 >>) : k \in 1 .. Len(components) }

(* C30: once the FunctionSpace is built from a list of components with    *)
(* distinct names, a name at top-level position i, or in a nested list at  *)
(* position i, is mapped to the integer i and a name inside tuples to the  *)
(* path of its positions; sub and extract_sub_space called with a name     *)
(* hand the wrapped space the same index as when called with the mapped    *)
(* index, and an argument that is not a name is handed over unchanged.     *)
C30_ComponentToIndex ==
    /\ fsPc = "ready" =>
        /\ DictKeys(component_to_index) = { o[1] : o \in ComponentOccurrences }
        /\ \A o \in ComponentOccurrences :
            DictGet(component_to_index, o[1])
                = IF Len(o[2]) = 1 THEN << "int", o[2][1] >> ELSE << "tuple", o[2] >>
        /\ \A i \in FSArgs :
            i[1] # "str" => convert_component_to_int(component_to_index, i) = i
    /\ (fsPc = "called" /\ fsOut.result = "output") =>
        IF fsArg[2][1] = "str"
        THEN LET mapped == DictGet(component_to_index, fsArg[2][2])
             IN  /\ fsArg[1] = "sub" =>
                     fsOut.call = custom_sub(component_to_index, mapped).call
                 /\ fsArg[1] = "extract_sub_space" =>
                     fsOut.call = custom_extract_sub_space(component_to_index, mapped).call
        ELSE fsOut.call[2] = fsArg[2]

(* sub called with a name that sits in a tuple, next to a list of two     *)
(* names for one component                                                 *)
C30_Witness ==
    /\ fsPc = "called"
    /\ components = << << "list", << << "str", "u" >>, << "str", "s" >> >> >>,
                       << "tuple", << << "str", "p" >> >> >> >>
    /\ component_to_index = { << "u", << "int", 0 >> >>, << "s", << "int", 0 >> >>,
                              << "p", << "tuple", << 1, 0 >> >> >> }
    /\ fsArg = << "sub", << "str", "p" >> >>
    /\ fsOut.call = << "extract_sub_space", << "tuple", << 1, 0 >> >> >>

(* C24: whatever the point at which a save of the basis or of the reduced *)
(* mesh is interrupted, a load either fails or returns the content of a    *)
(* save that was completed.                                                *)
C24_LoadCompletedOrFail ==
    /\ svLoaded[1] = "ok" => svLoaded[2] \in svSaved
    /\ load(svDisk["final"])[1] = "ok" => load(svDisk["final"])[2] \in svSaved

(* A save of other records was interrupted after its first record, and    *)
(* the new process loaded the records of the save completed before         *)
C24_Witness ==
    /\ svPc = "idle"
    /\ svSaves = 2
    /\ svSaved = { << "a", "b" >> }
    /\ svDisk["tmp"] = [ exists |-> TRUE, count |-> 2, records |-> << "b" >> ]
    /\ svLoaded = << "ok", << "a", "b" >> >>

=============================================================================
